---- MODULE Spec2Model ----
(***************************************************************************)
(* Stage 1 collector (stage1_collect.py): the coordinator loop of main()   *)
(* running gather_one for every live address on a bounded worker pool, and *)
(* gather_one itself: classification, the candidate loop over              *)
(* (profile x transport), the per-host deadline, command execution and the *)
(* artifact file.                                                          *)
(***************************************************************************)
EXTENDS Integers, Sequences, FiniteSets, TLC

\* ------------------------------------------------------------------------
\* Bounds of the model
\* ------------------------------------------------------------------------
\* session worker pool size (args.max_workers) used by the bounded runs
MaxWorkers == 2
\* how many heartbeat lines a run may print before the model stops counting
MaxHeartbeats == 1
\* how many times writing the artifact may fail for one host
MaxWriteFailures == 1
\* how many commands of one session may raise
MaxCommandFailures == 1
\* how many commands of one session may return no text
MaxEmptyOutputs == 1

\* the targets a run can be given on its command line, as spelled there: two
\* IPv4 addresses and two spellings of one IPv6 address
Targets == {"10.0.0.1", "10.0.0.2", "fe80::1", "FE80::1"}

\* addresses of the scanned range on which no port answers
Dark == {"10.0.0.3", "10.0.0.4", "10.0.0.5", "10.0.0.6"}

\* targets of the expansion runs on which no port answers: a name and an
\* address of another network
Elsewhere == {"sw1", "10.1.2.3"}

\* every address that can be probed
ProbeTargets == Targets \cup Dark \cup Elsewhere

\* the values of EXCLUDE_IPS of the runs explored: none; one address; a range
\* with host bits set and an IPv6 address; a bare a.b.0.0; a bare a.b.c.0 and
\* a blank entry; an entry that is no address
ExcludeLists ==
    {<<>>, <<"10.0.0.2">>, <<"10.0.0.3/31", "FE80::1">>, <<"10.0.0.0">>,
     <<"10.1.2.0", " ">>, <<"10.0.0.300">>}

\* Python's None
None == "None"
\* the text of a raised exception
E == "E"

\* ------------------------------------------------------------------------
\* String helpers (str.replace, str.lower, substring test, splitlines)
\* ------------------------------------------------------------------------
\* the positions of s where sub occurs
Occurrences(s, sub) ==
    {i \in 1..(Len(s) - Len(sub) + 1) : SubSeq(s, i, i + Len(sub) - 1) = sub}

\* sub in s
Contains(s, sub) == Occurrences(s, sub) /= {}

\* the least element of a non-empty set of numbers
Least(S) == CHOOSE i \in S : \A j \in S : i <= j

RECURSIVE Replace(_, _, _)
\* s.replace(old, new): every occurrence, left to right
Replace(s, old, new) ==
    IF ~Contains(s, old) THEN s
    ELSE LET i == Least(Occurrences(s, old))
         IN  SubSeq(s, 1, i - 1) \o new
                \o Replace(SubSeq(s, i + Len(old), Len(s)), old, new)

RECURSIVE SplitAt(_, _, _)
\* the pieces of s from position from on, cut at the positions of nl
SplitAt(s, from, nl) ==
    IF nl = {} THEN <<SubSeq(s, from, Len(s))>>
    ELSE LET i == Least(nl)
         IN  <<SubSeq(s, from, i - 1)>> \o SplitAt(s, i + 1, nl \ {i})

\* the lines of s, split at "\n"
SplitLines(s) == SplitAt(s, 1, Occurrences(s, "\n"))

RECURSIVE Join(_, _)
\* sep.join(parts)
Join(sep, parts) ==
    IF parts = <<>> THEN ""
    ELSE IF Len(parts) = 1 THEN parts[1]
         ELSE parts[1] \o sep \o Join(sep, Tail(parts))

\* an absent value and a present one
Nothing == <<>>
Some(v) == <<v>>

\* a dict with no key
EmptyDict == [k \in {} |-> None]

\* dict.get(key, default)
Get(d, key, default) == IF key \in DOMAIN d THEN d[key] ELSE default

\* dict(base); .update(over)
Update(base, over) ==
    [k \in DOMAIN base \cup DOMAIN over |->
        IF k \in DOMAIN over THEN over[k] ELSE base[k]]

UpperCase == "ABCDEFGHIJKLMNOPQRSTUVWXYZ"
LowerCase == "abcdefghijklmnopqrstuvwxyz"

\* the lower-case form of one character
LowerChar(c) ==
    IF \E i \in 1..Len(UpperCase) : SubSeq(UpperCase, i, i) = c
    THEN LET i == CHOOSE j \in 1..Len(UpperCase) : SubSeq(UpperCase, j, j) = c
         IN  SubSeq(LowerCase, i, i)
    ELSE c

RECURSIVE Lower(_)
\* s.lower(), one half of the text after the other
Lower(s) ==
    IF Len(s) <= 1 THEN LowerChar(s)
    ELSE Lower(SubSeq(s, 1, Len(s) \div 2)) \o Lower(SubSeq(s, Len(s) \div 2 + 1, Len(s)))

RECURSIVE Strip(_)
\* s.strip(), for the blanks of the model
Strip(s) ==
    IF s = "" THEN s
    ELSE IF SubSeq(s, 1, 1) = " " THEN Strip(SubSeq(s, 2, Len(s)))
    ELSE IF SubSeq(s, Len(s), Len(s)) = " " THEN Strip(SubSeq(s, 1, Len(s) - 1))
    ELSE s

\* s.startswith(p)
StartsWith(s, p) == Len(s) >= Len(p) /\ SubSeq(s, 1, Len(p)) = p

\* s.split(sep, 1)[1], for a one-character sep that occurs in s
AfterFirst(s, sep) == SubSeq(s, Least(Occurrences(s, sep)) + 1, Len(s))

\* ------------------------------------------------------------------------
\* Program constants
\* ------------------------------------------------------------------------
COMMANDS_BY_TYPE ==
    [cisco_ios |->
        [pre_enable |-> TRUE,
         commands |-> <<"show running-config", "show version",
                        "show cdp neighbors detail",
                        "show lldp neighbors detail",
                        "show interface status">>],
     cisco_ios_telnet |-> [extends |-> "cisco_ios"],
     hp_procurve |->
        [pre_enable |-> FALSE,
         commands |-> <<"show running-config", "show system-information",
                        "show lldp info remote-device detail",
                        "show interfaces brief">>],
     hp_procurve_telnet |-> [extends |-> "hp_procurve"],
     juniper_junos |->
        [pre_enable |-> FALSE,
         commands |-> <<"show configuration | display set", "show version",
                        "show lldp neighbors detail",
                        "show interfaces terse",
                        "show chassis hardware">>],
     juniper_junos_telnet |-> [extends |-> "juniper_junos"],
     generic |->
        [pre_enable |-> FALSE,
         commands |-> <<"show running-config",
                        "show lldp neighbors detail">>],
     generic_telnet |-> [extends |-> "generic"]]

NETMIKO_TO_PROFILE ==
    [cisco_ios |-> "cisco_ios",
     hp_procurve |-> "hp_procurve",
     aruba_procurve |-> "hp_procurve",
     juniper_junos |-> "juniper_junos",
     juniper |-> "juniper_junos",
     mikrotik_routeros |-> "generic",
     huawei |-> "generic",
     dlink_ds |-> "generic"]

DEVICE_TRY_ORDER == <<"cisco_ios", "hp_procurve", "juniper_junos", "generic">>

\* for transport in ("ssh", "telnet")
TRANSPORTS == <<"ssh", "telnet">>

\* errors[:4]
MaxReportedErrors == 4

\* tcp_workers = min(256, max(4, int(tcp_workers)))
MinTcpWorkers == 4
MaxTcpWorkers == 256

\* ------------------------------------------------------------------------
\* Addresses and networks (ipaddress), target expansion (iter_targets)
\* ------------------------------------------------------------------------
Digits == "0123456789"

\* c is a decimal digit
IsDigit(c) == \E i \in 1..Len(Digits) : SubSeq(Digits, i, i) = c

\* the value of the digit c
DigitValue(c) == (CHOOSE i \in 1..Len(Digits) : SubSeq(Digits, i, i) = c) - 1

\* s is a non-empty run of at most width decimal digits
IsNumber(s, width) ==
    /\ Len(s) \in 1..width
    /\ \A i \in 1..Len(s) : IsDigit(SubSeq(s, i, i))

RECURSIVE Number(_)
\* int(s) for a run of decimal digits
Number(s) ==
    IF s = "" THEN 0
    ELSE 10 * Number(SubSeq(s, 1, Len(s) - 1)) + DigitValue(SubSeq(s, Len(s), Len(s)))

\* s.split(sep) for a one-character sep
Split(s, sep) == SplitAt(s, 1, Occurrences(s, sep))

\* one octet of a dotted quad: one to three digits, no leading zero, at most 255
IsOctet(s) ==
    /\ IsNumber(s, 3)
    /\ Len(s) > 1 => SubSeq(s, 1, 1) /= "0"
    /\ Number(s) <= 255

\* the pieces are the four octets of an IPv4 address
AreOctets(parts) == Len(parts) = 4 /\ \A i \in 1..4 : IsOctet(parts[i])

\* ipaddress.IPv4Address(s) does not raise
IsIPv4(s) == AreOctets(Split(s, "."))

\* the number of the IPv4 address of these octets
OctetsValue(parts) ==
    ((Number(parts[1]) * 256 + Number(parts[2])) * 256 + Number(parts[3])) * 256
        + Number(parts[4])

\* int(ipaddress.IPv4Address(s))
IPv4Value(s) == OctetsValue(Split(s, "."))

\* str(ipaddress.IPv4Address(n))
Dotted(n) ==
    ToString(n \div 16777216) \o "." \o ToString((n \div 65536) % 256) \o "."
        \o ToString((n \div 256) % 256) \o "." \o ToString(n % 256)

\* the IPv6 spellings of the model; any other text with no dotted quad in it
\* is taken as a name
IPv6Literals == {"fe80::1", "FE80::1"}

\* ipaddress.ip_address(s) does not raise
IsAddress(s) == IsIPv4(s) \/ s \in IPv6Literals

\* how many addresses an IPv4 network of this prefix length has (prefix
\* lengths of 2 and more)
NetSize(prefix) == 2 ^ (32 - prefix)

\* a text that ipaddress.ip_network rejects
NoNetwork == [valid |-> FALSE, version |-> 0, base |-> 0, prefix |-> 0]

\* the IPv4 network of address n and this prefix length, host bits cleared
\* (strict=False)
IPv4Network(n, prefix) ==
    [valid |-> TRUE, version |-> 4,
     base |-> IF prefix >= 2 THEN n - (n % NetSize(prefix)) ELSE 0,
     prefix |-> prefix]

\* the network of an address text and a prefix text
NetworkOf(addr, prefix) ==
    IF IsIPv4(addr) /\ IsNumber(prefix, 2) /\ Number(prefix) <= 32
    THEN IPv4Network(IPv4Value(addr), Number(prefix))
    ELSE NoNetwork

\* the network of the pieces of c around "/"
NetworkOfPieces(pieces) ==
    IF Len(pieces) = 1 THEN NetworkOf(pieces[1], "32")
    ELSE IF Len(pieces) = 2 THEN NetworkOf(pieces[1], pieces[2])
    ELSE NoNetwork

\* ipaddress.ip_network(c, strict=False) for the IPv4 texts of the model:
\* a.b.c.d/n with n from 0 to 32, or a.b.c.d alone; valid is FALSE when it
\* raises ValueError
ip_network(c) == NetworkOfPieces(Split(c, "/"))

\* ip in net, for an IPv4 address of value n below 128.0.0.0
InNetwork(n, net) ==
    IF net.prefix <= 1 THEN TRUE
    ELSE n \div NetSize(net.prefix) = net.base \div NetSize(net.prefix)

\* net.hosts(): every address but the network and the broadcast address, in
\* ascending order; both addresses of a /31, the one address of a /32
HostValues(net) ==
    IF net.prefix = 32 THEN <<net.base>>
    ELSE IF net.prefix = 31 THEN <<net.base, net.base + 1>>
    ELSE [i \in 1..(NetSize(net.prefix) - 2) |-> net.base + i]

\* [str(ip) for ip in net.hosts()]
HostsOf(net) == [i \in 1..Len(HostValues(net)) |-> Dotted(HostValues(net)[i])]

\* a bug: nothing is remembered
NeverSeen(t, yielded) == FALSE

\* t in seen, seen being the set of what was yielded
Seen(t, yielded) == \E i \in 1..Len(yielded) : yielded[i] = t

RECURSIVE YieldNew(_, _)
\* lines 280-285 and 292-296: each item that is not empty and not yet seen is
\* yielded, in order
YieldNew(items, yielded) ==
    IF items = <<>> THEN yielded
    ELSE YieldNew(Tail(items),
                  IF Head(items) = "" \/ Seen(Head(items), yielded)
                  THEN yielded ELSE Append(yielded, Head(items)))

\* t.strip() for every t
StripAll(items) == [i \in 1..Len(items) |-> Strip(items[i])]

\* a bug: a range that ip_network rejects is passed over
RangeNeverFails(c) == FALSE

\* line 291: ip_network raises ValueError
RangeFails(c) == ~ip_network(c).valid

\* the hosts of the range c
RangeHosts(c) == IF ip_network(c).valid THEN HostsOf(ip_network(c)) ELSE <<>>

RECURSIVE YieldRanges(_, _)
\* lines 287-296: the ranges in order; raised when ip_network raised, yielded
\* being what the generator had produced by then
YieldRanges(cidrs, yielded) ==
    IF cidrs = <<>> THEN [raised |-> FALSE, yielded |-> yielded]
    ELSE IF Head(cidrs) = "" THEN YieldRanges(Tail(cidrs), yielded)
    ELSE IF RangeFails(Head(cidrs)) THEN [raised |-> TRUE, yielded |-> yielded]
    ELSE YieldRanges(Tail(cidrs), YieldNew(RangeHosts(Head(cidrs)), yielded))

\* iter_targets(seed_ips, cidrs), run to its end or to the exception
iter_targets(seed_ips, cidrs) ==
    YieldRanges(StripAll(cidrs), YieldNew(StripAll(seed_ips), <<>>))

\* ------------------------------------------------------------------------
\* The normalize stage (src/parsers/normalize.py): edge labels
\* ------------------------------------------------------------------------
\* label = truncate(label, 80)
LabelLimit == 80

\* the one character "…" that truncate appends, written as one ASCII
\* character
Ellipsis == "~"

RECURSIVE LStrip(_)
\* the text after its leading blanks
LStrip(s) == IF s /= "" /\ SubSeq(s, 1, 1) = " " THEN LStrip(SubSeq(s, 2, Len(s))) ELSE s

\* how many decimal digits s begins with
DigitsRun(s) ==
    Cardinality({n \in 1..Len(s) : \A i \in 1..n : IsDigit(SubSeq(s, i, i))})

\* the length of (\d+(?:\.\d+)?) at the start of t, 0 when t begins with no digit
NumberRun(t, whole) ==
    IF whole > 0 /\ Len(t) >= whole + 2 /\ SubSeq(t, whole + 1, whole + 1) = "."
          /\ DigitsRun(SubSeq(t, whole + 2, Len(t))) > 0
    THEN whole + 1 + DigitsRun(SubSeq(t, whole + 2, Len(t)))
    ELSE whole

\* the unit letter the pattern captures in what follows the number: g, m or k
\* in either case, or nothing
UnitOf(rest) ==
    IF rest /= "" /\ LowerChar(SubSeq(rest, 1, 1)) \in {"g", "m", "k"}
    THEN LowerChar(SubSeq(rest, 1, 1)) ELSE ""

\* the speed of a number text and a unit: no unit counts as G
SpeedOf(num, unit) ==
    num \o (IF unit = "m" THEN "M" ELSE IF unit = "k" THEN "K" ELSE "G")

\* the match of _SPEED_PAT on t, the value without its leading blanks, whose
\* number is n characters long
SpeedMatch(val, t, n) ==
    IF n = 0 THEN Strip(val)
    ELSE SpeedOf(SubSeq(t, 1, n), UnitOf(LStrip(SubSeq(t, n + 1, Len(t)))))

\* normalize_speed(val)
normalize_speed(val) ==
    IF val = None \/ val = "" THEN None
    ELSE SpeedMatch(val, LStrip(val), NumberRun(LStrip(val), DigitsRun(LStrip(val))))

\* a bug: limit characters are kept before the ellipsis
truncate_keeps_limit(s, limit) ==
    IF s = "" THEN s
    ELSE IF Len(Strip(s)) <= limit THEN Strip(s)
    ELSE SubSeq(Strip(s), 1, limit) \o Ellipsis

\* truncate(s, limit)
truncate(s, limit) ==
    IF s = "" THEN s
    ELSE IF Len(Strip(s)) <= limit THEN Strip(s)
    ELSE SubSeq(Strip(s), 1, IF limit - 1 > 0 THEN limit - 1 ELSE 0) \o Ellipsis

\* x or ""
OrEmpty(x) == IF x = None THEN "" ELSE x

\* lines 253-257: " | ".join([p for p in parts if p]).strip()
JoinedLabel(name, speed, desc) ==
    Strip(Join(" | ", SelectSeq(<<name, OrEmpty(speed), OrEmpty(desc)>>,
                                LAMBDA part : part /= "")))

\* lines 244-268: the edge of one interface whose stripped name is name
EdgeOf(name, itf) ==
    [src_intf |-> name,
     speed |-> normalize_speed(itf.speed),
     desc |-> itf.desc,
     label |-> IF truncate(JoinedLabel(name, normalize_speed(itf.speed), itf.desc),
                           LabelLimit) /= ""
               THEN Some(truncate(JoinedLabel(name, normalize_speed(itf.speed), itf.desc),
                                  LabelLimit))
               ELSE Nothing]

\* the interfaces that have a name
Named(itf) == Strip(itf.name) /= ""

\* lines 243-279: one edge per interface with a name, in the order of the
\* interfaces
EdgesOf(interfaces) ==
    [i \in 1..Len(SelectSeq(interfaces, Named)) |->
        EdgeOf(Strip(SelectSeq(interfaces, Named)[i].name), SelectSeq(interfaces, Named)[i])]

\* Normalizer.run has not been called
NotNormalized == [ran |-> FALSE, edges |-> <<>>]

\* ------------------------------------------------------------------------
\* The Mermaid renderer (src/renderers/mermaid_writer.py)
\* ------------------------------------------------------------------------
\* the most edges of a graph handed to the writer
MaxEdges == 2

\* a value Python takes for false where a text is expected: None or ""
Falsy(x) == x = None \/ x = ""

\* the sequences of a sequence, one after the other
RECURSIVE Concat(_)
Concat(seqs) == IF seqs = <<>> THEN <<>> ELSE Head(seqs) \o Concat(Tail(seqs))

\* the k-th number of a set of numbers, from the least
Nth(S, k) == CHOOSE i \in S : Cardinality({j \in S : j < i}) = k - 1

\* the values of a list without their repetitions, in the order they first
\* appear: the keys of a dict filled by setdefault
FirstSeen(values) ==
    [k \in 1..Cardinality({i \in 1..Len(values) :
                              \A j \in 1..(i - 1) : values[j] /= values[i]}) |->
        values[Nth({i \in 1..Len(values) :
                       \A j \in 1..(i - 1) : values[j] /= values[i]}, k)]]

\* normalize.py, zone_from_hostname: the first token after the first one,
\* between "-", that is one to four digits
zone_from_hostname(hostname) ==
    IF {i \in 2..Len(Split(hostname, "-")) : IsNumber(Split(hostname, "-")[i], 4)} = {}
    THEN None
    ELSE Split(hostname, "-")[Least({i \in 2..Len(Split(hostname, "-")) :
                                        IsNumber(Split(hostname, "-")[i], 4)})]

IdChars == "0123456789ABCDEFGHIJKLMNOPQRSTUVWXYZabcdefghijklmnopqrstuvwxyz_"

\* re.sub(r"[^0-9A-Za-z_]", "_", s)
safe_id(s) ==
    Join("", [i \in 1..Len(s) |->
                 IF Contains(IdChars, SubSeq(s, i, i)) THEN SubSeq(s, i, i) ELSE "_"])

\* the quotes of a label are escaped
esc(text) == IF text = None THEN "" ELSE Replace(text, "\"", "\\\"")

\* "<br/>" + "<br/>".join(extras[:5]), with label_verbosity "full"
ExtraText(extras) ==
    IF extras = <<>> THEN ""
    ELSE "<br/>" \o Join("<br/>", SubSeq(extras, 1, IF Len(extras) < 5 THEN Len(extras) ELSE 5))

\* labels.primary or hostname or node_id
PrimaryOf(node_id, n) ==
    IF ~Falsy(n.primary) THEN n.primary
    ELSE IF ~Falsy(n.hostname) THEN n.hostname ELSE node_id

\* build_node_line: ID["label"]:::class
build_node_line(node_id, n) ==
    safe_id(node_id) \o "[\""
        \o esc(Replace(Replace(PrimaryOf(node_id, n), "\\n", "<br/>"), "\n", "<br/>"))
        \o ExtraText(n.extra) \o "\"]:::"
        \o Lower(IF Falsy(n.class) THEN "access" ELSE n.class)

\* the label of an edge line: the port of each end that has one
EdgeLabel(s_if, d_if) ==
    IF s_if /= "" /\ d_if /= "" THEN "(" \o s_if \o ") <-> (" \o d_if \o ")"
    ELSE IF s_if /= "" THEN "(" \o s_if \o ")"
    ELSE IF d_if /= "" THEN "(" \o d_if \o ")"
    ELSE ""

\* build_edge_line: the line of an edge, "" for an edge without src or dst
build_edge_line(e) ==
    IF Falsy(e.src) \/ Falsy(e.dst) THEN ""
    ELSE IF EdgeLabel(Strip(OrEmpty(e.src_intf)), Strip(OrEmpty(e.dst_intf))) /= ""
    THEN safe_id(e.src) \o " -- \""
            \o esc(EdgeLabel(Strip(OrEmpty(e.src_intf)), Strip(OrEmpty(e.dst_intf))))
            \o "\" --- " \o safe_id(e.dst)
    ELSE safe_id(e.src) \o " --- " \o safe_id(e.dst)

\* _header and class_defs: the flowchart line and the class definitions,
\* without the init directive and the styles, which no node or edge changes
Header == "%% Mermaid NetDocs\nflowchart LR\n"
ClassDefs == "classDef core stroke-width:2px;\nclassDef access stroke-width:1.5px;\n"

\* str(n.get("site") or "UNSPEC")
SiteOf(n) == IF Falsy(n.site) THEN "UNSPEC" ELSE n.site

\* str(n.get("zone") or "").strip()
ZoneOf(n) == Strip(OrEmpty(n.zone))

\* int(x) if str(x).isdigit() else 9999
ZoneKey(z) == IF IsNumber(z, Len(z)) THEN Number(z) ELSE 9999

\* how many zones sorted() puts before the i-th: those of a lesser key, and
\* those of the same key that come earlier
ZonesBefore(zs, i) ==
    Cardinality({j \in 1..Len(zs) :
                    \/ ZoneKey(zs[j]) < ZoneKey(zs[i])
                    \/ ZoneKey(zs[j]) = ZoneKey(zs[i]) /\ j < i})

\* sorted(by_zone.keys(), key=...)
SortedZones(zs) ==
    [k \in 1..Len(zs) |-> zs[CHOOSE i \in 1..Len(zs) : ZonesBefore(zs, i) = k - 1]]

\* the nodes of a list that are of the site / of the zone / of no zone
InSite(items, site) == SelectSeq(items, LAMBDA n : SiteOf(n) = site)
InZone(items, z) == SelectSeq(items, LAMBDA n : ZoneOf(n) = z)
Unzoned(items) == SelectSeq(items, LAMBDA n : ZoneOf(n) = "")

\* the zones of the nodes of a site, sorted
ZonesOf(items) ==
    SortedZones(FirstSeen(SelectSeq([i \in 1..Len(items) |-> ZoneOf(items[i])],
                                    LAMBDA z : z /= "")))

\* the node lines of a list, each after the indent
NodeLines(items, indent) ==
    [i \in 1..Len(items) |-> indent \o build_node_line(items[i].hostname, items[i])]

\* lines 262-267: the block of one zone
ZoneBlock(items, z) ==
    <<"  subgraph \"" \o z \o "\"", "    direction TB">>
        \o NodeLines(InZone(items, z), "    ") \o <<"  end">>

\* line 283: s in znodes or (d in znodes and s not in znodes)
OfZone(e, znodes) == e.src \in znodes \/ (e.dst \in znodes /\ e.src \notin znodes)

\* the hostnames of a list of nodes
Hostnames(items) == {items[i].hostname : i \in 1..Len(items)}

\* lines 275-286: the comment line of a zone and the lines of its edges
ZoneEdges(items, z, edges) ==
    <<"%% ===== " \o z \o " =====">>
        \o SelectSeq([i \in 1..Len(edges) |->
                         IF ~Falsy(edges[i].src) /\ ~Falsy(edges[i].dst)
                               /\ OfZone(edges[i], Hostnames(InZone(items, z)))
                         THEN build_edge_line(edges[i]) ELSE ""],
                     LAMBDA ln : ln /= "")

\* lines 250-286: the block of one site, then the edges of its zones
SiteBlock(site, items, edges) ==
    <<"subgraph \"" \o site \o "\"", "  direction TB">>
        \o Concat([k \in 1..Len(ZonesOf(items)) |-> ZoneBlock(items, ZonesOf(items)[k])])
        \o NodeLines(Unzoned(items), "  ")
        \o <<"end">>
        \o Concat([k \in 1..Len(ZonesOf(items)) |->
                      ZoneEdges(items, ZonesOf(items)[k], edges)])

\* _group_by_site: the sites in the order of the sorted nodes
SitesOf(nodes) == FirstSeen([i \in 1..Len(nodes) |-> SiteOf(nodes[i])])

\* _render_nodes_with_subgraphs
render_nodes_with_subgraphs(g) ==
    Concat([k \in 1..Len(SitesOf(g.nodes)) |->
               SiteBlock(SitesOf(g.nodes)[k], InSite(g.nodes, SitesOf(g.nodes)[k]), g.edges)])

\* _render_nodes_plain
render_nodes_plain(g) == NodeLines(g.nodes, "")

\* _render_edges: the line of every edge that has one
render_edges(g) ==
    SelectSeq([i \in 1..Len(g.edges) |-> build_edge_line(g.edges[i])], LAMBDA ln : ln /= "")

\* node_site.get(name)
node_site(g, name) ==
    IF name \in Hostnames(g.nodes)
    THEN SiteOf(g.nodes[CHOOSE i \in 1..Len(g.nodes) : g.nodes[i].hostname = name])
    ELSE None

\* lines 310-319: the edges between two sites
CrossSiteEdges(g) ==
    SelectSeq([i \in 1..Len(g.edges) |->
                  IF ~Falsy(g.edges[i].src) /\ ~Falsy(g.edges[i].dst)
                        /\ node_site(g, g.edges[i].src) /= node_site(g, g.edges[i].dst)
                  THEN build_edge_line(g.edges[i]) ELSE ""],
              LAMBDA ln : ln /= "")

\* MermaidWriter.render
render(g, subgraphs) ==
    Join("\n", <<Header>>
                  \o (IF subgraphs THEN render_nodes_with_subgraphs(g) ELSE render_nodes_plain(g))
                  \o <<"">>
                  \o (IF subgraphs THEN CrossSiteEdges(g) ELSE render_edges(g))
                  \o <<"">>
                  \o <<ClassDefs>>)

\* the writer has no graph
NoGraph == [nodes |-> <<>>, edges |-> <<>>]

\* ------------------------------------------------------------------------
\* State
\* ------------------------------------------------------------------------
VARIABLES
    env,        \* os.environ, the command line and the files of config/collect,
                \* fixed for a run: PREFER_VENDOR, NET_ENABLE, DETECT,
                \* EXCLUDE_IPS, max_workers, tcp_workers, TCP_WORKERS, asScript
                \* (the module is run as __main__), py311 (the interpreter is
                \* Python 3.11 or later), overrides (config/collect/<base>.json),
                \* hints (config/collect/vendor_hints.json)
    probe,      \* main: the port probe of each target: "absent" (not a target
                \* of the run), "waiting", "running", then "open" (port 22 or
                \* 23 answered) or "closed"
    live,       \* main: the targets whose probe returned them, by the
                \* spelling of the command line
    mainPc,     \* main: "probe", "loop", "report", "returned", "unwind",
                \* "crashed"
    raisedInMain, \* main: the exception that is leaving main, None if none
    pending,    \* main: the futures not yet collected
    results,    \* main: the list of collected outcomes
    done,       \* main: the completion counter
    heartbeats, \* main: heartbeat lines printed
    completed_any, \* main: a future was collected in the current pass of the
                \* while loop
    pc,         \* gather_one of each address: where the task is
    order,      \* gather_one: the list of candidate profiles
    cand,       \* gather_one: <<index into order, index into TRANSPORTS>>
    errors,     \* gather_one: the error list
    attempts,   \* gather_one: the sessions attempted, in order: the device
                \* type handed to ConnectHandler, and whether the deadline
                \* had already passed when the attempt began
    chunks,     \* gather_one: the output blocks of the open session
    timedSends, \* gather_one: non-prompt-aware sends made
    sessions,   \* gather_one: sessions opened and not disconnected
    expired,    \* time.time() > deadline, per address
    expiredDuring, \* when the deadline passed: "no", "before" the first attempt
                \* began, during the "first" attempt, or "later"
    writeFails, \* how many times write_text failed, per address
    future,     \* the state of each submitted future
    artifacts,  \* the files of data/raw, by path
    consulted,  \* gather_one: whether the stored output, the range table or
                \* active detection was read to choose the profile
    device,     \* the device behind the address when the transport is
                \* deterministic: what it answers to every request; None when
                \* every answer is open
    targets,    \* main: the target list, once iter_targets has built it
    inventory,  \* normalize: the interfaces of the inventory handed to Normalizer
    normalized, \* normalize: whether Normalizer.run has returned, and its edges
    norm,       \* render: the nodes and the edges of the graph handed to MermaidWriter,
                \* the nodes in the order of stable_node_key
    use_subgraphs, \* render: cfg.render.use_subgraphs
    mmd,        \* render: the text MermaidWriter.render returned, Nothing before
    firstRun    \* the outcome of the previous run over the same data/raw,
                \* None in a first run

mainVars == <<probe, mainPc, raisedInMain, pending, results, done, heartbeats,
              completed_any>>
taskVars == <<pc, order, cand, errors, attempts, chunks, timedSends,
              sessions, writeFails, future, artifacts, consulted>>
clockVars == <<expired, expiredDuring>>
\* the writer's graph, its mode and its text
renderVars == <<norm, use_subgraphs, mmd>>
\* the later stages of the pipeline, which no step of the collection changes
stageVars == <<inventory, normalized, renderVars>>

\* MermaidWriter has not been built
NoRender == norm = NoGraph /\ use_subgraphs = FALSE /\ mmd = Nothing
\* what no step changes once probing has begun
fixedVars == <<env, device, targets, stageVars>>
vars == <<fixedVars, live, firstRun, mainVars, taskVars, clockVars>>

\* no file at data/raw/<ip>.txt
NoFile == "<no file>"

\* ------------------------------------------------------------------------
\* Command profiles
\* ------------------------------------------------------------------------
\* the dict read from config/collect/<dt_base>.json or .txt; {} without a file
\* str(x).strip() is not empty
NotBlank(x) == Strip(x) /= ""

\* lines 226-233: the profile read from <dt_base>.json, whose content is raw:
\* a pre_enable that is a JSON boolean, and the entries of commands that are
\* not blank
JsonProfile(raw) ==
    IF "pre_enable" \in DOMAIN raw /\ raw["pre_enable"].type = "bool"
    THEN IF "commands" \in DOMAIN raw
         THEN [pre_enable |-> raw["pre_enable"].value,
               commands |-> SelectSeq(raw["commands"], NotBlank)]
         ELSE [pre_enable |-> raw["pre_enable"].value]
    ELSE IF "commands" \in DOMAIN raw
         THEN [commands |-> SelectSeq(raw["commands"], NotBlank)]
         ELSE EmptyDict

\* line 245: val in ("1", "true", "yes", "on")
TruthyWords == {"1", "true", "yes", "on"}

\* line 241: a line that is neither empty nor a comment is a command
IsCommandLine(s) == s /= "" /\ ~StartsWith(s, "#")

\* s.lower() == p, for a p in lower case: character by character
LowerEquals(s, p) ==
    /\ Len(s) = Len(p)
    /\ \A i \in 1..Len(s) : LowerChar(SubSeq(s, i, i)) = SubSeq(p, i, i)

\* s.lower().startswith(p), for a p in lower case
LowerStartsWith(s, p) == Len(s) >= Len(p) /\ LowerEquals(SubSeq(s, 1, Len(p)), p)

\* line 243: a comment line that is a pre_enable directive
IsDirective(s) == LowerStartsWith(s, "# pre_enable=")

\* lines 244-245: the value a directive sets
DirectiveValue(s) == \E w \in TruthyWords : LowerEquals(Strip(AfterFirst(s, "=")), w)

\* lines 248-253: the profile made of the commands and of the pre_enable
\* values (<<>> when there is no directive) read from a .txt file
TxtResult(cmds, pre_enable) ==
    IF cmds /= <<>>
    THEN IF pre_enable /= <<>>
         THEN [pre_enable |-> pre_enable[Len(pre_enable)], commands |-> cmds]
         ELSE [commands |-> cmds]
    ELSE IF pre_enable /= <<>>
         THEN [pre_enable |-> pre_enable[Len(pre_enable)]]
         ELSE EmptyDict

\* the value each directive sets, in the order of the lines
DirectiveValues(directives) ==
    [i \in 1..Len(directives) |-> DirectiveValue(directives[i])]

\* lines 239-247, for the stripped lines of the file
TxtScan(stripped) ==
    TxtResult(SelectSeq(stripped, IsCommandLine),
              DirectiveValues(SelectSeq(stripped, IsDirective)))

\* lines 235-253: the profile read from <dt_base>.txt: its stripped command
\* lines, and the value of its last pre_enable directive if it has one
TxtProfile(lines) == TxtScan([i \in 1..Len(lines) |-> Strip(lines[i])])

\* the contents config/collect/<id>.txt has in the runs of the model
TxtFiles ==
    {<<"# PRE_ENABLE= Yes ", "", "  show arp  ", "# a comment", "show mac">>,
     <<"# pre_enable=0">>}

\* the profile read from each of them, computed once
TxtProfiles == [lines \in TxtFiles |-> TxtProfile(lines)]

\* _load_external_profile: the .json file is preferred to the .txt file
load_external_profile(dt_base) ==
    IF dt_base \in DOMAIN env.overrides THEN JsonProfile(env.overrides[dt_base])
    ELSE IF dt_base \in DOMAIN env.txt THEN TxtProfiles[env.txt[dt_base]]
    ELSE EmptyDict

\* a bug: the commands of the override are added to the built-in ones
MergedCommands(builtin, over) == builtin \o over

\* line 267: prof["commands"] = list(override["commands"])
ReplacedCommands(builtin, over) == over

\* a bug: the fields of the base profile are not copied
OwnFieldsOnly(base, own) == own

\* lines 307-308: merged = dict(base); merged.update(own fields)
Overlay(base, own) == Update(base, own)

\* lines 264-267: the built-in profile with the fields of the override
ApplyOverride(prof, override) ==
    [k \in DOMAIN prof
          \cup (IF "pre_enable" \in DOMAIN override THEN {"pre_enable"} ELSE {})
          \cup (IF Get(override, "commands", <<>>) /= <<>> THEN {"commands"} ELSE {}) |->
        IF k = "pre_enable" /\ "pre_enable" \in DOMAIN override
        THEN override["pre_enable"]
        ELSE IF k = "commands" /\ Get(override, "commands", <<>>) /= <<>>
        THEN ReplacedCommands(Get(prof, "commands", <<>>), override["commands"])
        ELSE prof[k]]

\* lines 261-262: the built-in profile of device_type, of its base, or generic
BuiltinProfile(device_type, base) ==
    Get(COMMANDS_BY_TYPE, device_type,
        Get(COMMANDS_BY_TYPE, base, COMMANDS_BY_TYPE["generic"]))

\* lines 261-268, for the base of device_type
ProfileOfBase(device_type, base) ==
    ApplyOverride(BuiltinProfile(device_type, base), load_external_profile(base))

profile_for_device_type(device_type) ==
    ProfileOfBase(device_type, Replace(device_type, "_telnet", ""))

\* the fields of prof other than extends
OwnFields(prof) == [k \in DOMAIN prof \ {"extends"} |-> prof[k]]

\* lines 305-310
ResolveExtends(prof) ==
    IF "extends" \in DOMAIN prof
    THEN Overlay(profile_for_device_type(prof["extends"]), OwnFields(prof))
    ELSE prof

merge_commands_for(device_type) == ResolveExtends(profile_for_device_type(device_type))

\* profile.get("commands", ["show running-config"])
CommandsOf(dt) == Get(merge_commands_for(dt), "commands", <<"show running-config">>)

\* profile.get("pre_enable", False)
PreEnableOf(dt) == Get(merge_commands_for(dt), "pre_enable", FALSE)

\* ------------------------------------------------------------------------
\* Vendor hints
\* ------------------------------------------------------------------------
\* a bug: the cisco keywords are looked for first
guess_cisco_first(s) ==
    LET t == Lower(s)
    IN  IF Contains(t, "cisco ios") \/ Contains(t, "ios-xe") \/ Contains(t, "cisco")
             THEN "cisco_ios"
        ELSE IF Contains(t, "routeros") \/ Contains(t, "mikrotik") THEN "mikrotik"
        ELSE IF Contains(t, "eltex") \/ Contains(t, " mes") THEN "eltex_mes"
        ELSE IF Contains(t, "huawei") \/ Contains(t, " vrp") THEN "huawei_vrp"
        ELSE IF Contains(t, "d-link") \/ Contains(t, " dgs") \/ Contains(t, " des-")
             THEN "dlink"
        ELSE IF Contains(t, "qtech") \/ Contains(t, " qsw") THEN "qtech"
        ELSE None

\* _guess_vendor_from_text(s)
guess_vendor_from_text(s) ==
    LET t == Lower(s)
    IN  IF Contains(t, "routeros") \/ Contains(t, "mikrotik") THEN "mikrotik"
        ELSE IF Contains(t, "eltex") \/ Contains(t, " mes") THEN "eltex_mes"
        ELSE IF Contains(t, "huawei") \/ Contains(t, " vrp") THEN "huawei_vrp"
        ELSE IF Contains(t, "d-link") \/ Contains(t, " dgs") \/ Contains(t, " des-")
             THEN "dlink"
        ELSE IF Contains(t, "qtech") \/ Contains(t, " qsw") THEN "qtech"
        ELSE IF Contains(t, "cisco ios") \/ Contains(t, "ios-xe") \/ Contains(t, "cisco")
             THEN "cisco_ios"
        ELSE None

\* a bug: every task writes one file
SharedPath(ip) == "data/raw/out.txt"

\* DATA_RAW / f"{ip}.txt"
out_path(ip) == "data/raw/" \o ip \o ".txt"

\* str(ipaddress.ip_address(t)) for the targets of the model: an IPv4 address
\* is kept, the hexadecimal digits of an IPv6 address become lower case
Canonical == [t \in ProbeTargets |-> Lower(t)]
str_ip_address(t) == IF t \in DOMAIN Canonical THEN Canonical[t] ELSE Lower(t)

\* lines 489-499: what one entry of EXCLUDE_IPS adds: a network for a text
\* with "/", the /16 of a bare a.b.0.0, the /24 of a bare a.b.c.0, the address
\* itself otherwise; nothing but a warning when ipaddress rejects it
ExcludeEntryOf(spec, parts) ==
    IF Contains(spec, "/") THEN [net |-> ip_network(spec), ip |-> None]
    ELSE IF Len(parts) = 4 /\ parts[3] = "0" /\ parts[4] = "0"
    THEN [net |-> ip_network(parts[1] \o "." \o parts[2] \o ".0.0/16"), ip |-> None]
    ELSE IF Len(parts) = 4 /\ parts[4] = "0"
    THEN [net |-> ip_network(parts[1] \o "." \o parts[2] \o "." \o parts[3] \o ".0/24"),
          ip |-> None]
    ELSE [net |-> NoNetwork, ip |-> IF IsAddress(spec) THEN str_ip_address(spec) ELSE None]

ExcludeEntry(spec) == ExcludeEntryOf(spec, Split(spec, "."))

\* _exclude_networks and _exclude_ips of a list of entries, blank ones dropped
ParseExclusions(specs) ==
    [networks |-> {ExcludeEntry(Strip(specs[i])).net : i \in 1..Len(specs)} \ {NoNetwork},
     ips |-> {ExcludeEntry(Strip(specs[i])).ip : i \in 1..Len(specs)} \ {None}]

\* the exclusion lists of the model, parsed
Exclusions == [specs \in ExcludeLists |-> ParseExclusions(specs)]

ExclusionsOf(specs) ==
    IF specs \in DOMAIN Exclusions THEN Exclusions[specs] ELSE ParseExclusions(specs)

\* _exclude_networks: the ranges of EXCLUDE_IPS
ExcludeNetworks == ExclusionsOf(env.EXCLUDE_IPS).networks

\* _exclude_ips: the bare host addresses of EXCLUDE_IPS
ExcludeIps == ExclusionsOf(env.EXCLUDE_IPS).ips

\* line 502: if _exclude_networks or _exclude_ips
ExclusionRan == ExcludeNetworks /= {} \/ ExcludeIps /= {}

\* a bug: the excluded ranges are not looked at
InNoRange(t) == FALSE

\* lines 516-520: ip in net for one of the excluded ranges
InExcludedRange(t) ==
    IsIPv4(t) /\ \E net \in ExcludeNetworks : InNetwork(IPv4Value(t), net)

\* lines 505-523: the target stays in the list
Kept(t) ==
    /\ IsAddress(t)
    /\ str_ip_address(t) \notin ExcludeIps
    /\ ~InExcludedRange(t)

\* lines 502-525: the targets that stay, by their spelling on the command line
Filtered(seeds) ==
    IF ExclusionRan
    THEN {t \in seeds : Kept(t)}
    ELSE seeds

\* the string main hands to _check_host and gather_one for the target spelled
\* t: filtered.append(str(ip)) when the exclusion block ran, t itself otherwise
Address(t) == IF ExclusionRan THEN str_ip_address(t) ELSE t

RECURSIVE ListOf(_)
\* the members of a set in one order
ListOf(S) ==
    IF S = {} THEN <<>>
    ELSE LET x == CHOOSE y \in S : TRUE
         IN  <<x>> \o ListOf(S \ {x})

\* lines 502-525: the target list after the exclusion block
Exclude(list) ==
    IF ExclusionRan
    THEN LET kept == SelectSeq(list, Kept)
         IN  [i \in 1..Len(kept) |-> str_ip_address(kept[i])]
    ELSE list

\* the files of data/raw the tasks of the model can write
Files == {out_path(Address(t)) : t \in Targets}

\* p.read_text(...)[:4000]
RawHeadLen == 4000
RawHead(text) == SubSeq(text, 1, IF Len(text) < RawHeadLen THEN Len(text) ELSE RawHeadLen)

\* the guess from data/raw/<ip>.txt, None without a file
vendor_hint_from_raw(ip) ==
    IF artifacts[out_path(ip)] = NoFile THEN None
    ELSE guess_vendor_from_text(RawHead(artifacts[out_path(ip)]))

RECURSIVE FirstHint(_, _)
FirstHint(items, ip) ==
    IF items = <<>> THEN None
    ELSE IF Head(items).valid /\ ip \in Head(items).net
         THEN Head(items).vendor
         ELSE FirstHint(Tail(items), ip)

\* the vendor of the first entry of vendor_hints.json whose range holds ip
vendor_hint_for_ip(ip) == FirstHint(env.hints, ip)

\* a or b, for values where None and "" are falsy
Or(a, b) == IF a /= None /\ a /= "" THEN a ELSE b

\* a bug: the hint table is asked before the stored output
HintTableFirst(raw, table) == Or(table, raw)

\* line 345: vendor_hint_from_raw(ip) or vendor_hint_for_ip(ip)
HintOf(raw, table) == Or(raw, table)

\* ------------------------------------------------------------------------
\* gather_one
\* ------------------------------------------------------------------------
\* the future of a task that has not returned
Pending == [kind |-> "pending"]

\* a bug: the ok outcome built without the device type
OkOutcomeNoType(ip, dt) == [ip |-> ip, status |-> "ok", device_type |-> ""]

\* {"ip": ip, "status": "ok", "device_type": dt}
OkOutcome(ip, dt) == [ip |-> ip, status |-> "ok", device_type |-> dt]

\* a bug: the whole error list is returned
Unsliced(errs) == errs

\* errors[:4]
Reported(errs) ==
    SubSeq(errs, 1, IF Len(errs) < MaxReportedErrors THEN Len(errs) ELSE MaxReportedErrors)

\* {"ip": ip, "status": "fail", "errors": errors[:4]}
FailOutcome(ip, errs) == [ip |-> ip, status |-> "fail", errors |-> Reported(errs)]

\* the diagnostics gather_one appends
DeadlineDiag == "deadline_exceeded"
AutodetectDiag == "autodetect_ssh: " \o E
EnableDiag(dt) == dt \o ": enable() failed: " \o E
AttemptDiag(dt) == dt \o ": " \o E

\* the blocks a command adds to chunks
OutputChunk(cmd, out) == "\n\n$ " \o cmd \o "\n" \o out
\* a bug: the block of a command that raised has no marker line
ErrorChunkNoMarker(cmd) == "\n\n[ERROR executing command: " \o E \o "]"
ErrorChunk(cmd) == "\n\n$ " \o cmd \o "\n" \o "[ERROR executing command: " \o E \o "]"

\* a bug: the blocks of the commands that raised are left out of the file
ArtifactWithoutErrors(cs) ==
    Join("\n", SelectSeq(cs, LAMBDA c : ~Contains(c, "[ERROR executing command: ")))

\* what out_path.write_text receives
ArtifactText(cs) == Join("\n", cs)

\* a bug: the deadline is never found exceeded
DeadlineIgnored(h) == FALSE

\* time.time() > deadline
DeadlineExceeded(h) == expired[h]

\* what conn.send_command can return: text, an empty string, None
CommandOutputs == {"OUT", "", None}

\* what autodetect() can return; None when nothing matched
DetectResults == {None, "aruba_procurve", "linux"}

\* a device of which every answer is open: each request may succeed or fail
OpenDevice ==
    [open |-> TRUE, ssh |-> TRUE, telnet |-> TRUE, detect |-> None,
     accepts |-> {}, enable |-> TRUE, raising |-> {}, output |-> "OUT"]

\* the answers the device can give: is_port_open(ip, 22), is_port_open(ip, 23),
\* autodetect() ("raise" when it raises), ConnectHandler(device_type=dt)
\* returning a session, conn.enable() returning, and send_command(cmd)
SshAnswers == IF device.open THEN BOOLEAN ELSE {device.ssh}
TelnetAnswers == IF device.open THEN BOOLEAN ELSE {device.telnet}
DetectAnswers == IF device.open THEN DetectResults \cup {"raise"} ELSE {device.detect}
ConnectAnswers(dt) == IF device.open THEN BOOLEAN ELSE {dt \in device.accepts}
EnableAnswers == IF device.open THEN BOOLEAN ELSE {device.enable}
CommandAnswers(cmd) ==
    IF device.open
    THEN {[raised |-> TRUE, out |-> None]}
            \cup {[raised |-> FALSE, out |-> o] : o \in CommandOutputs}
    ELSE IF cmd \in device.raising
         THEN {[raised |-> TRUE, out |-> None]}
         ELSE {[raised |-> FALSE, out |-> device.output]}

\* a bug: the override is never taken as configured
OverrideNeverConfigured(pref) == FALSE

\* line 341: if pref
OverrideConfigured(pref) == pref /= ""

\* a bug: the default list follows the resolved profile
PrimaryThenDefaults(primary_dt) == <<primary_dt>> \o DEVICE_TRY_ORDER

\* lines 364-366: order = [primary_dt] when classification resolved a profile
Composed(primary_dt) == <<primary_dt>>

\* lines 334-368: the candidate profiles and the errors classification leaves,
\* with the sources it consulted to choose the profile, or the exception that
\* escapes it
Classification(ip, ssh_open, detect) ==
    LET pref == Strip(env.PREFER_VENDOR)
    IN  IF OverrideConfigured(pref)
        THEN [raised |-> FALSE, order |-> Composed(pref), errors |-> <<>>, used |-> {}]
        ELSE IF env.asScript
        THEN \* vendor_hint_from_raw is defined below the call of main()
             [raised |-> TRUE, order |-> <<>>, errors |-> <<>>, used |-> {}]
        ELSE LET raw == vendor_hint_from_raw(ip)
                 hint == HintOf(raw, vendor_hint_for_ip(ip))
                 read == IF raw /= None THEN {"raw"} ELSE {"raw", "hints"}
             IN  IF hint /= None
                 THEN [raised |-> FALSE, order |-> Composed(hint), errors |-> <<>>,
                       used |-> read]
                 ELSE IF ssh_open /\ Strip(env.DETECT) /= "0"
                 THEN IF detect = "raise"
                      THEN [raised |-> FALSE, order |-> DEVICE_TRY_ORDER,
                            errors |-> <<AutodetectDiag>>,
                            used |-> read \cup {"detect"}]
                      ELSE IF detect /= None
                      THEN [raised |-> FALSE,
                            order |-> Composed(Get(NETMIKO_TO_PROFILE, detect, detect)),
                            errors |-> <<>>, used |-> read \cup {"detect"}]
                      ELSE [raised |-> FALSE, order |-> DEVICE_TRY_ORDER,
                            errors |-> <<>>, used |-> read \cup {"detect"}]
                 ELSE [raised |-> FALSE, order |-> DEVICE_TRY_ORDER,
                       errors |-> <<>>, used |-> read]

Running(h) == pc[h] \notin {"absent", "queued", "done", "raised"}

\* a bug: the pool starts a task whatever the number of its busy threads
PoolUnbounded(busy, workers) == TRUE

\* ThreadPoolExecutor(max_workers=workers): a thread is free for one more task
PoolHasRoom(busy, workers) == busy < workers

\* a worker thread of the pool takes the task
StartTask(h) ==
    /\ pc[h] = "queued"
    /\ PoolHasRoom(Cardinality({g \in Targets : Running(g)}), env.max_workers)
    /\ pc' = [pc EXCEPT ![h] = "start"]
    /\ UNCHANGED <<fixedVars, firstRun, live, mainVars, order, cand, errors,
                   attempts, chunks, timedSends, sessions, writeFails, future,
                   artifacts, consulted, clockVars>>

\* lines 326-368
Classify(h) ==
    /\ pc[h] = "start"
    /\ \E ssh_open \in SshAnswers, detect \in DetectAnswers :
         LET c == Classification(Address(h), ssh_open, detect)
         IN  IF c.raised
             THEN /\ pc' = [pc EXCEPT ![h] = "raised"]
                  /\ future' = [future EXCEPT ![h] = [kind |-> "exception", value |-> "NameError"]]
                  /\ UNCHANGED <<order, errors, consulted>>
             ELSE /\ pc' = [pc EXCEPT ![h] = "loop"]
                  /\ order' = [order EXCEPT ![h] = c.order]
                  /\ errors' = [errors EXCEPT ![h] = c.errors]
                  /\ consulted' = [consulted EXCEPT ![h] = c.used /= {}]
                  /\ UNCHANGED future
    /\ UNCHANGED <<fixedVars, firstRun, live, mainVars, cand, attempts, chunks,
                   timedSends, sessions, writeFails, artifacts, clockVars>>

\* where gather_one is with respect to its first attempt
AttemptPhase(h) ==
    IF attempts[h] = <<>> THEN "before"
    ELSE IF Len(attempts[h]) = 1 /\ pc[h] \in {"connect", "enable", "commands"} THEN "first"
    ELSE "later"

\* the clock passes the deadline of h
Expire(h) ==
    /\ Running(h)
    /\ ~expired[h]
    /\ expired' = [expired EXCEPT ![h] = TRUE]
    /\ expiredDuring' = [expiredDuring EXCEPT ![h] = AttemptPhase(h)]
    /\ UNCHANGED <<fixedVars, firstRun, live, mainVars, taskVars>>

Exhausted(h) == cand[h][1] > Len(order[h])
BaseDt(h) == order[h][cand[h][1]]
Transport(h) == TRANSPORTS[cand[h][2]]

\* a bug: Telnet is tried before SSH
TelnetFirstType(base_dt, transport) ==
    IF transport = "ssh" THEN base_dt \o "_telnet" ELSE base_dt

\* dt = base_dt if transport == "ssh" else f"{base_dt}_telnet"
DeviceType(base_dt, transport) ==
    IF transport = "ssh" THEN base_dt ELSE base_dt \o "_telnet"

Dt(h) == DeviceType(BaseDt(h), Transport(h))

\* the next (profile, transport) of the two loops
NextCandidate(c) == IF c[2] < Len(TRANSPORTS) THEN <<c[1], c[2] + 1>> ELSE <<c[1] + 1, 1>>
\* break: out of the transport loop only
AfterBreak(c) == <<c[1] + 1, 1>>

\* a bug: a Telnet candidate is never skipped
TelnetNeverSkipped(transport, open) == FALSE

\* line 374: transport == "telnet" and not is_port_open(ip, 23, ...)
TelnetSkipped(transport, open) == transport = "telnet" /\ ~open

\* what the check of port 23 made for a candidate answered
PortChecked(transport, open) ==
    IF transport /= "telnet" THEN "unchecked"
    ELSE IF open THEN "open" ELSE "closed"

\* line 374-375: port 23 does not answer
SkipTelnet(h) ==
    /\ pc[h] = "loop" /\ ~Exhausted(h)
    /\ \E open \in TelnetAnswers : TelnetSkipped(Transport(h), open)
    /\ cand' = [cand EXCEPT ![h] = NextCandidate(cand[h])]
    /\ UNCHANGED <<fixedVars, firstRun, live, mainVars, pc, order, errors,
                   attempts, chunks, timedSends, sessions, writeFails, future,
                   artifacts, consulted, clockVars>>

\* lines 376-378
DeadlineBreak(h) ==
    /\ pc[h] = "loop" /\ ~Exhausted(h)
    /\ \E open \in TelnetAnswers : ~TelnetSkipped(Transport(h), open)
    /\ DeadlineExceeded(h)
    /\ errors' = [errors EXCEPT ![h] = Append(@, DeadlineDiag)]
    /\ cand' = [cand EXCEPT ![h] = AfterBreak(cand[h])]
    /\ UNCHANGED <<fixedVars, firstRun, live, mainVars, pc, order, attempts,
                   chunks, timedSends, sessions, writeFails, future, artifacts,
                   consulted, clockVars>>

\* lines 374-403: the candidate passes the port check and the deadline check,
\* and ConnectHandler is called
BeginAttempt(h) ==
    /\ pc[h] = "loop" /\ ~Exhausted(h)
    /\ ~DeadlineExceeded(h)
    /\ \E open \in TelnetAnswers :
         /\ ~TelnetSkipped(Transport(h), open)
         /\ attempts' = [attempts EXCEPT ![h] =
                Append(@, [dt |-> Dt(h), late |-> expired[h],
                           port23 |-> PortChecked(Transport(h), open),
                           enable |-> "none"])]
    /\ pc' = [pc EXCEPT ![h] = "connect"]
    /\ UNCHANGED <<fixedVars, firstRun, live, mainVars, order, cand, errors,
                   chunks, timedSends, sessions, writeFails, future, artifacts,
                   consulted, clockVars>>

\* a bug: a failed attempt is not recorded
AttemptFailureNotRecorded(errs, dt) == errs

\* line 436-438: what an attempt that raised leaves in the error list
AfterAttemptFailure(errs, dt) == Append(errs, AttemptDiag(dt))

\* line 403 raises: connect or login failed
ConnectFail(h) ==
    /\ pc[h] = "connect"
    /\ FALSE \in ConnectAnswers(Dt(h))
    /\ errors' = [errors EXCEPT ![h] = AfterAttemptFailure(@, Dt(h))]
    /\ cand' = [cand EXCEPT ![h] = NextCandidate(cand[h])]
    /\ pc' = [pc EXCEPT ![h] = "loop"]
    /\ UNCHANGED <<fixedVars, firstRun, live, mainVars, order, attempts, chunks,
                   timedSends, sessions, writeFails, future, artifacts,
                   consulted, clockVars>>

\* a bug: elevation is attempted whatever the profile and the secret
EnableAlways(dt) == TRUE

\* line 406: if pre_enable and creds.get("secret")
NeedsEnable(dt) == PreEnableOf(dt) /\ env.NET_ENABLE /= ""

\* line 403 returns a session
ConnectOk(h) ==
    /\ pc[h] = "connect"
    /\ TRUE \in ConnectAnswers(Dt(h))
    /\ sessions' = [sessions EXCEPT ![h] = @ + 1]
    /\ chunks' = [chunks EXCEPT ![h] = <<>>]
    /\ pc' = [pc EXCEPT ![h] = IF NeedsEnable(Dt(h)) THEN "enable" ELSE "commands"]
    /\ UNCHANGED <<fixedVars, firstRun, live, mainVars, order, cand, errors,
                   attempts, timedSends, writeFails, future, artifacts,
                   consulted, clockVars>>

\* lines 406-411: conn.enable() returns or raises
Enable(h) ==
    /\ pc[h] = "enable"
    /\ \E ok \in EnableAnswers :
         /\ errors' = [errors EXCEPT ![h] = IF ok THEN @ ELSE Append(@, EnableDiag(Dt(h)))]
         /\ attempts' = [attempts EXCEPT ![h][Len(attempts[h])].enable =
                            IF ok THEN "ok" ELSE "failed"]
    /\ pc' = [pc EXCEPT ![h] = "commands"]
    /\ UNCHANGED <<fixedVars, firstRun, live, mainVars, order, cand, chunks,
                   timedSends, sessions, writeFails, future, artifacts,
                   consulted, clockVars>>

\* out or ""
OutText(out) == IF out = None THEN "" ELSE out

\* lines 415-422: chunks after one command, whose send_command returned out
\* or raised
AfterCommand(cs, cmd, raised, out) ==
    IF raised THEN Append(cs, ErrorChunk(cmd))
    ELSE Append(cs, OutputChunk(cmd, OutText(out)))

\* how many blocks of cs are the block a command leaves when it raised /
\* returned nothing
CountFailed(cs, cmds) == Cardinality({i \in 1..Len(cs) : cs[i] = ErrorChunk(cmds[i])})
CountEmpty(cs, cmds) == Cardinality({i \in 1..Len(cs) : cs[i] = OutputChunk(cmds[i], "")})

\* lines 415-422: the next command of the list
SendCommand(h) ==
    /\ pc[h] = "commands"
    /\ Len(chunks[h]) < Len(CommandsOf(Dt(h)))
    /\ LET cmd == CommandsOf(Dt(h))[Len(chunks[h]) + 1]
       IN  \E a \in CommandAnswers(cmd) :
             /\ a.raised => CountFailed(chunks[h], CommandsOf(Dt(h))) < MaxCommandFailures
             /\ ~a.raised /\ OutText(a.out) = "" =>
                    CountEmpty(chunks[h], CommandsOf(Dt(h))) < MaxEmptyOutputs
             /\ chunks' = [chunks EXCEPT ![h] = AfterCommand(@, cmd, a.raised, a.out)]
    /\ UNCHANGED <<fixedVars, firstRun, live, mainVars, pc, order, cand, errors,
                   attempts, timedSends, sessions, writeFails, future, artifacts,
                   consulted, clockVars>>

\* lines 424-427: the command loop is over, the artifact is written
WriteArtifact(h) ==
    /\ pc[h] = "commands"
    /\ Len(chunks[h]) = Len(CommandsOf(Dt(h)))
    /\ artifacts' = [artifacts EXCEPT ![out_path(Address(h))] = ArtifactText(chunks[h])]
    /\ chunks' = [chunks EXCEPT ![h] = <<>>]
    /\ pc' = [pc EXCEPT ![h] = "disconnect"]
    /\ UNCHANGED <<fixedVars, firstRun, live, mainVars, order, cand, errors,
                   attempts, timedSends, sessions, writeFails, future,
                   consulted, clockVars>>

\* lines 425-427 raise (mkdir or write_text): caught at line 436 like a failed
\* connect; the session is not closed
WriteFail(h) ==
    /\ pc[h] = "commands"
    /\ Len(chunks[h]) = Len(CommandsOf(Dt(h)))
    /\ writeFails[h] < MaxWriteFailures
    /\ writeFails' = [writeFails EXCEPT ![h] = @ + 1]
    /\ errors' = [errors EXCEPT ![h] = AfterAttemptFailure(@, Dt(h))]
    /\ cand' = [cand EXCEPT ![h] = NextCandidate(cand[h])]
    /\ chunks' = [chunks EXCEPT ![h] = <<>>]
    /\ pc' = [pc EXCEPT ![h] = "loop"]
    /\ UNCHANGED <<fixedVars, firstRun, live, mainVars, order, attempts,
                   timedSends, sessions, future, artifacts, consulted, clockVars>>

\* a bug: a disconnect that raised turns the outcome into a failure
CloseFailureFails(outcome, closed) ==
    IF closed THEN outcome ELSE FailOutcome(outcome.ip, <<AttemptDiag(outcome.device_type)>>)

\* lines 430-435: except Exception: pass; the outcome returned after
\* conn.disconnect() returned (closed) or raised
AfterClose(outcome, closed) == outcome

\* lines 429-435: disconnect (a failure is swallowed) and return ok
ReturnOk(h) ==
    /\ pc[h] = "disconnect"
    /\ \E closed \in BOOLEAN :
         /\ sessions' = [sessions EXCEPT ![h] = IF closed THEN @ - 1 ELSE @]
         /\ future' = [future EXCEPT ![h] =
                [kind |-> "result",
                 value |-> AfterClose(OkOutcome(Address(h), Dt(h)), closed)]]
    /\ pc' = [pc EXCEPT ![h] = "done"]
    /\ UNCHANGED <<fixedVars, firstRun, live, mainVars, order, cand, errors,
                   attempts, chunks, timedSends, writeFails, artifacts,
                   consulted, clockVars>>

\* line 441: both loops are over
ReturnFail(h) ==
    /\ pc[h] = "loop" /\ Exhausted(h)
    /\ future' = [future EXCEPT ![h] =
            [kind |-> "result", value |-> FailOutcome(Address(h), errors[h])]]
    /\ pc' = [pc EXCEPT ![h] = "done"]
    /\ UNCHANGED <<fixedVars, firstRun, live, mainVars, order, cand, errors,
                   attempts, chunks, timedSends, sessions, writeFails, artifacts,
                   consulted, clockVars>>

\* ------------------------------------------------------------------------
\* main: the port probes (lines 538-575)
\* ------------------------------------------------------------------------
Min(a, b) == IF a < b THEN a ELSE b
Max(a, b) == IF a > b THEN a ELSE b

\* min(256, max(4, int(tcp_workers)))
Clamp(n) == Min(MaxTcpWorkers, Max(MinTcpWorkers, n))

\* lines 549-560: the size of the probe pool, from args.tcp_workers, the
\* number read from TCP_WORKERS (0 when it is not one) and args.max_workers
TcpWorkers(arg, opt, max_workers) ==
    Clamp(IF arg /= 0 THEN arg ELSE IF opt > 0 THEN opt ELSE max_workers)

tcp_workers == TcpWorkers(env.tcp_workers, env.TCP_WORKERS, env.max_workers)

\* a bug: every probed target is returned
check_host_any(h, p22, p23) == h

\* _check_host: h when port 22 or port 23 answers, None otherwise
check_host(h, p22, p23) == IF p22 \/ p23 THEN h ELSE None

\* what ports 22 and 23 of a target can answer to the probe
ProbeAnswers(t) ==
    IF t \notin Targets THEN {<<FALSE, FALSE>>}
    ELSE IF device.open THEN BOOLEAN \X BOOLEAN
    ELSE {<<device.ssh, device.telnet>>}

Probing == {t \in ProbeTargets : probe[t] = "running"}

\* a thread of the probe pool takes _check_host(t)
ProbeStart(t) ==
    /\ mainPc = "probe"
    /\ probe[t] = "waiting"
    /\ PoolHasRoom(Cardinality(Probing), tcp_workers)
    /\ probe' = [probe EXCEPT ![t] = "running"]
    /\ UNCHANGED <<fixedVars, firstRun, live, mainPc, raisedInMain, pending,
                   results, done, heartbeats, completed_any, taskVars, clockVars>>

\* lines 563-570: _check_host(t) is over and its future is collected
ProbeEnd(t) ==
    /\ mainPc = "probe"
    /\ probe[t] = "running"
    /\ \E a \in ProbeAnswers(t) :
         /\ probe' = [probe EXCEPT ![t] = IF a[1] \/ a[2] THEN "open" ELSE "closed"]
         /\ live' = IF check_host(t, a[1], a[2]) /= None THEN live \cup {t} ELSE live
    /\ UNCHANGED <<fixedVars, firstRun, mainPc, raisedInMain, pending, results,
                   done, heartbeats, completed_any, taskVars, clockVars>>

\* lines 572-595: every probe is over; main returns when no target is live,
\* and submits one gather_one per live target otherwise
Submit ==
    /\ mainPc = "probe"
    /\ \A t \in ProbeTargets : probe[t] \in {"absent", "open", "closed"}
    /\ IF live = {}
       THEN /\ mainPc' = "returned"
            /\ UNCHANGED <<pending, pc>>
       ELSE /\ mainPc' = "loop"
            /\ pending' = live
            /\ pc' = [h \in Targets |-> IF h \in live THEN "queued" ELSE "absent"]
    /\ UNCHANGED <<fixedVars, firstRun, live, probe, raisedInMain, results, done,
                   heartbeats, completed_any, order, cand, errors, attempts, chunks, timedSends,
                   sessions, writeFails, future, artifacts, consulted, clockVars>>

\* ------------------------------------------------------------------------
\* main: the coordinator loop (lines 590-618)
\* ------------------------------------------------------------------------
\* a bug: the loop ends while one future is still pending
LoopStopsEarly(p) == Cardinality(p) > 1

\* while pending
LoopGoesOn(p) == p /= {}

\* lines 601-611: as_completed yields a finished future whose result() returns
Collect(h) ==
    /\ mainPc = "loop"
    /\ h \in pending
    /\ future[h].kind = "result"
    /\ results' = Append(results, future[h].value)
    /\ done' = done + 1
    /\ pending' = pending \ {h}
    /\ completed_any' = TRUE
    /\ mainPc' = IF LoopGoesOn(pending') THEN "loop" ELSE "report"
    /\ UNCHANGED <<fixedVars, firstRun, live, probe, raisedInMain, heartbeats,
                   taskVars, clockVars>>

\* line 602: result() re-raises the exception of the task; except TimeoutError
\* does not catch it, and it leaves the loop and both with blocks
CollectRaises(h) ==
    /\ mainPc = "loop"
    /\ h \in pending
    /\ future[h].kind = "exception"
    /\ IF future[h].value = "TimeoutError"
       THEN UNCHANGED <<mainPc, raisedInMain>>
       ELSE mainPc' = "unwind" /\ raisedInMain' = future[h].value
    /\ UNCHANGED <<fixedVars, firstRun, live, probe, pending, results, done,
                   heartbeats, completed_any, taskVars, clockVars>>

\* as_completed(..., timeout=5) raises concurrent.futures.TimeoutError, which
\* is the builtin TimeoutError that line 614 catches from Python 3.11 on
TimeoutCaught == env.py311

\* as_completed has waited 5 seconds and a future of the call is not over
WaitTimedOut == mainPc = "loop" /\ \E h \in pending : future[h].kind = "pending"

\* lines 614-618: the timeout is caught and the heartbeat line printed: every
\* wait begins after last_hb was set, so now - last_hb >= 5
Heartbeat ==
    /\ WaitTimedOut
    /\ TimeoutCaught
    /\ heartbeats < MaxHeartbeats
    /\ heartbeats' = heartbeats + 1
    /\ completed_any' = FALSE
    /\ UNCHANGED <<fixedVars, firstRun, live, probe, mainPc, raisedInMain,
                   pending, results, done, taskVars, clockVars>>

\* line 601: the timeout is not the exception line 614 names, and leaves the
\* loop and both with blocks
TimeoutEscapes ==
    /\ WaitTimedOut
    /\ ~TimeoutCaught
    /\ mainPc' = "unwind"
    /\ raisedInMain' = "concurrent.futures.TimeoutError"
    /\ UNCHANGED <<fixedVars, firstRun, live, probe, pending, results, done,
                   heartbeats, completed_any, taskVars, clockVars>>

AllTasksOver == \A h \in Targets : pc[h] \in {"absent", "done", "raised"}

\* ThreadPoolExecutor.__exit__: shutdown(wait=True), then the exception leaves main
Unwind ==
    /\ mainPc = "unwind"
    /\ AllTasksOver
    /\ mainPc' = "crashed"
    /\ UNCHANGED <<fixedVars, firstRun, live, probe, raisedInMain, pending,
                   results, done, heartbeats, completed_any, taskVars, clockVars>>

\* lines 620-639: the with blocks are left and the table is printed
Report ==
    /\ mainPc = "report"
    /\ mainPc' = "returned"
    /\ UNCHANGED <<fixedVars, firstRun, live, probe, raisedInMain, pending,
                   results, done, heartbeats, completed_any, taskVars, clockVars>>

\* ------------------------------------------------------------------------
\* Runs
\* ------------------------------------------------------------------------
\* an override file config/collect/generic.json
GenericOverride == [generic |-> [commands |-> <<"show arp">>]]

\* the environment of a run with nothing configured
DefaultEnv ==
    [PREFER_VENDOR |-> "", NET_ENABLE |-> "", DETECT |-> "1", EXCLUDE_IPS |-> <<>>,
     max_workers |-> MaxWorkers, tcp_workers |-> 64, TCP_WORKERS |-> 0,
     asScript |-> FALSE, py311 |-> TRUE, overrides |-> EmptyDict,
     txt |-> EmptyDict, hints |-> <<>>]

\* a run whose hosts have few candidates: the override is configured
GenericEnv == Update(DefaultEnv, [PREFER_VENDOR |-> "generic", overrides |-> GenericOverride])

\* the runs explored: several hosts when each host has few candidates or the
\* module is run as a script, one host when it goes through the default order
Runs ==
    {[env |-> Update(DefaultEnv, [NET_ENABLE |-> "secret"]), seeds |-> {"10.0.0.1"}]}
    \cup
    {[env |-> GenericEnv, seeds |-> {"10.0.0.1", "10.0.0.2"}]}
    \cup
    \* the module run as a script, by a pool of one thread or more
    {[env |-> Update(DefaultEnv, [asScript |-> TRUE, max_workers |-> w]),
      seeds |-> {"10.0.0.1", "10.0.0.2"}] : w \in {1, MaxWorkers}}
    \cup
    \* two spellings of one address, with an exclusion list
    {[env |-> Update(GenericEnv, [EXCLUDE_IPS |-> <<"10.0.0.2">>]),
      seeds |-> {"10.0.0.2", "fe80::1", "FE80::1"}]}
    \cup
    \* a range of which one address answers, probed by a pool asked to be small
    {[env |-> Update(GenericEnv, [tcp_workers |-> 2]), seeds |-> {"10.0.0.1"} \cup Dark]}
    \cup
    \* an interpreter older than Python 3.11, the probe pool sized by TCP_WORKERS
    {[env |-> Update(GenericEnv, [py311 |-> FALSE, tcp_workers |-> 0, TCP_WORKERS |-> 300]),
      seeds |-> {"10.0.0.1"}]}

\* no previous run
NoRun == [kind |-> "none"]

Init ==
    /\ \E r \in Runs :
         /\ env = r.env
         /\ probe = [t \in ProbeTargets |->
                        IF t \in Filtered(r.seeds) THEN "waiting" ELSE "absent"]
         /\ targets = Exclude(ListOf(r.seeds))
    /\ device = OpenDevice
    /\ firstRun = NoRun
    /\ inventory = <<>>
    /\ normalized = NotNormalized
    /\ NoRender
    /\ live = {}
    /\ mainPc = "probe"
    /\ raisedInMain = None
    /\ pending = {}
    /\ results = <<>>
    /\ done = 0
    /\ heartbeats = 0
    /\ completed_any = FALSE
    /\ pc = [h \in Targets |-> "absent"]
    /\ order = [h \in Targets |-> <<>>]
    /\ cand = [h \in Targets |-> <<1, 1>>]
    /\ errors = [h \in Targets |-> <<>>]
    /\ attempts = [h \in Targets |-> <<>>]
    /\ chunks = [h \in Targets |-> <<>>]
    /\ timedSends = [h \in Targets |-> 0]
    /\ sessions = [h \in Targets |-> 0]
    /\ expired = [h \in Targets |-> FALSE]
    /\ expiredDuring = [h \in Targets |-> "no"]
    /\ writeFails = [h \in Targets |-> 0]
    /\ future = [h \in Targets |-> Pending]
    /\ artifacts = [f \in Files |-> NoFile]
    /\ consulted = [h \in Targets |-> FALSE]

Next ==
    \/ \E t \in ProbeTargets : ProbeStart(t)
    \/ \E t \in ProbeTargets : ProbeEnd(t)
    \/ Submit
    \/ \E h \in Targets : StartTask(h)
    \/ \E h \in Targets : Classify(h)
    \/ \E h \in Targets : Expire(h)
    \/ \E h \in Targets : SkipTelnet(h)
    \/ \E h \in Targets : DeadlineBreak(h)
    \/ \E h \in Targets : BeginAttempt(h)
    \/ \E h \in Targets : ConnectFail(h)
    \/ \E h \in Targets : ConnectOk(h)
    \/ \E h \in Targets : Enable(h)
    \/ \E h \in Targets : SendCommand(h)
    \/ \E h \in Targets : WriteArtifact(h)
    \/ \E h \in Targets : WriteFail(h)
    \/ \E h \in Targets : ReturnOk(h)
    \/ \E h \in Targets : ReturnFail(h)
    \/ \E h \in Targets : Collect(h)
    \/ \E h \in Targets : CollectRaises(h)
    \/ Heartbeat
    \/ TimeoutEscapes
    \/ Unwind
    \/ Report

Spec == Init /\ [][Next]_vars

\* the run when every call returns or raises in its time and every thread of
\* the pools is scheduled: a step is taken as long as one can be
SpecLive == Init /\ [][Next]_vars /\ WF_vars(Next)

\* ------------------------------------------------------------------------
\* Two runs over one data directory, against a device that always answers
\* the same
\* ------------------------------------------------------------------------
\* a device type no ConnectHandler of the model refuses
AnyType ==
    {"cisco_ios", "hp_procurve", "juniper_junos", "generic", "mikrotik",
     "cisco_ios_telnet", "hp_procurve_telnet", "juniper_junos_telnet",
     "generic_telnet", "mikrotik_telnet"}

\* devices of which every answer is fixed: the ports, what autodetect()
\* returns, the device types ConnectHandler accepts, the command that raises
\* and the text every other command returns
Devices ==
    [open : {FALSE}, ssh : {TRUE}, telnet : BOOLEAN,
     detect : {None, "aruba_procurve", "raise"},
     accepts : {{}, {"hp_procurve"}, {"generic_telnet"}, AnyType},
     enable : {TRUE},
     raising : {{}, {"show version"}},
     output : {"OUT", "MikroTik RouterOS 6.49", "Port 1: Cisco IOS Software"}]

\* vendor_hints.json: an entry whose cidr does not parse, a range that holds
\* the addresses of the model, and a narrower range listed after it
HintsFile ==
    <<[valid |-> FALSE, net |-> {}, vendor |-> "cisco_ios"],
      [valid |-> TRUE, net |-> {"10.0.0.1", "10.0.0.2"}, vendor |-> "hp_procurve"],
      [valid |-> TRUE, net |-> {"10.0.0.1"}, vendor |-> "juniper_junos"]>>

\* the runs repeated: nothing configured, a hint table, and a hint table
\* under the override PREFER_VENDOR=" generic "
RerunRuns ==
    {[env |-> DefaultEnv, seeds |-> {"10.0.0.1"}],
     [env |-> Update(DefaultEnv, [hints |-> HintsFile]), seeds |-> {"10.0.0.1"}],
     [env |-> Update(DefaultEnv, [PREFER_VENDOR |-> " generic ", hints |-> HintsFile]),
      seeds |-> {"10.0.0.1", "10.0.0.2"}]}

\* main is called again with the same arguments and environment, over the
\* data/raw the first call left; the outcomes of the first call are kept
RunAgain ==
    /\ mainPc = "returned"
    /\ live /= {}
    /\ firstRun.kind = "none"
    /\ firstRun' = [kind |-> "run", future |-> future, order |-> order]
    /\ probe' = [t \in ProbeTargets |-> IF probe[t] = "absent" THEN "absent" ELSE "waiting"]
    /\ live' = {}
    /\ mainPc' = "probe"
    /\ raisedInMain' = None
    /\ pending' = {}
    /\ results' = <<>>
    /\ done' = 0
    /\ heartbeats' = 0
    /\ completed_any' = FALSE
    /\ pc' = [h \in Targets |-> "absent"]
    /\ order' = [h \in Targets |-> <<>>]
    /\ cand' = [h \in Targets |-> <<1, 1>>]
    /\ errors' = [h \in Targets |-> <<>>]
    /\ attempts' = [h \in Targets |-> <<>>]
    /\ chunks' = [h \in Targets |-> <<>>]
    /\ timedSends' = [h \in Targets |-> 0]
    /\ sessions' = [h \in Targets |-> 0]
    /\ expired' = [h \in Targets |-> FALSE]
    /\ expiredDuring' = [h \in Targets |-> "no"]
    /\ writeFails' = [h \in Targets |-> 0]
    /\ future' = [h \in Targets |-> Pending]
    /\ consulted' = [h \in Targets |-> FALSE]
    /\ UNCHANGED <<fixedVars, artifacts>>

InitRerun ==
    /\ \E r \in RerunRuns :
         /\ env = r.env
         /\ probe = [t \in ProbeTargets |->
                        IF t \in Filtered(r.seeds) THEN "waiting" ELSE "absent"]
         /\ targets = Exclude(ListOf(r.seeds))
    /\ device \in Devices
    /\ firstRun = NoRun
    /\ inventory = <<>>
    /\ normalized = NotNormalized
    /\ NoRender
    /\ live = {}
    /\ mainPc = "probe"
    /\ raisedInMain = None
    /\ pending = {}
    /\ results = <<>>
    /\ done = 0
    /\ heartbeats = 0
    /\ completed_any = FALSE
    /\ pc = [h \in Targets |-> "absent"]
    /\ order = [h \in Targets |-> <<>>]
    /\ cand = [h \in Targets |-> <<1, 1>>]
    /\ errors = [h \in Targets |-> <<>>]
    /\ attempts = [h \in Targets |-> <<>>]
    /\ chunks = [h \in Targets |-> <<>>]
    /\ timedSends = [h \in Targets |-> 0]
    /\ sessions = [h \in Targets |-> 0]
    /\ expired = [h \in Targets |-> FALSE]
    /\ expiredDuring = [h \in Targets |-> "no"]
    /\ writeFails = [h \in Targets |-> 0]
    /\ future = [h \in Targets |-> Pending]
    /\ artifacts = [f \in Files |-> NoFile]
    /\ consulted = [h \in Targets |-> FALSE]

\* the deadline is never met, every write succeeds and no wait times out
NextRerun ==
    \/ \E t \in ProbeTargets : ProbeStart(t)
    \/ \E t \in ProbeTargets : ProbeEnd(t)
    \/ Submit
    \/ \E h \in Targets : StartTask(h)
    \/ \E h \in Targets : Classify(h)
    \/ \E h \in Targets : SkipTelnet(h)
    \/ \E h \in Targets : BeginAttempt(h)
    \/ \E h \in Targets : ConnectFail(h)
    \/ \E h \in Targets : ConnectOk(h)
    \/ \E h \in Targets : SendCommand(h)
    \/ \E h \in Targets : WriteArtifact(h)
    \/ \E h \in Targets : ReturnOk(h)
    \/ \E h \in Targets : ReturnFail(h)
    \/ \E h \in Targets : Collect(h)
    \/ Report
    \/ RunAgain

SpecRerun == InitRerun /\ [][NextRerun]_vars

\* ------------------------------------------------------------------------
\* Runs under the override files of config/collect
\* ------------------------------------------------------------------------
\* a JSON boolean and a JSON string
JsonBool(b) == [type |-> "bool", value |-> b]
JsonString(t) == [type |-> "string", value |-> t]

\* contents of config/collect/<id>.json
JsonFiles ==
    {[commands |-> <<"show arp">>],
     [pre_enable |-> JsonBool(FALSE)],
     [pre_enable |-> JsonBool(TRUE), commands |-> <<" ", "show arp", "", "show mac">>],
     [pre_enable |-> JsonString("false"), commands |-> <<>>]}

\* the profile ids the runs are given: two built-in ones and an unknown one
ProfileIds == {"cisco_ios", "generic", "mikrotik"}

\* the override directories: empty, or one file for one profile id
OverrideDirs ==
    {[overrides |-> EmptyDict, txt |-> EmptyDict]}
    \cup {[overrides |-> [k \in {id} |-> f], txt |-> EmptyDict] :
            id \in ProfileIds, f \in JsonFiles}
    \cup {[overrides |-> EmptyDict, txt |-> [k \in {id} |-> f]] :
            id \in ProfileIds, f \in TxtFiles}

\* one profile for every address, an enable secret, an override directory
ProfileEnvs ==
    {Update(DefaultEnv, [PREFER_VENDOR |-> id, NET_ENABLE |-> "secret",
                         overrides |-> d.overrides, txt |-> d.txt]) :
        id \in ProfileIds, d \in OverrideDirs}

\* devices that open a session over SSH, over Telnet only, or not at all
ProfileDevices ==
    [open : {FALSE}, ssh : {TRUE}, telnet : BOOLEAN, detect : {None},
     accepts : {{}, {"cisco_ios", "generic", "mikrotik"},
                {"cisco_ios_telnet", "generic_telnet", "mikrotik_telnet"}},
     enable : BOOLEAN, raising : {{}}, output : {"OUT"}]

InitProfiles ==
    /\ \E e \in ProfileEnvs : env = e
    /\ \E d \in ProfileDevices : device = d
    /\ targets = <<"10.0.0.1">>
    /\ probe = [t \in ProbeTargets |-> IF t = "10.0.0.1" THEN "waiting" ELSE "absent"]
    /\ firstRun = NoRun
    /\ inventory = <<>>
    /\ normalized = NotNormalized
    /\ NoRender
    /\ live = {}
    /\ mainPc = "probe"
    /\ raisedInMain = None
    /\ pending = {}
    /\ results = <<>>
    /\ done = 0
    /\ heartbeats = 0
    /\ completed_any = FALSE
    /\ pc = [h \in Targets |-> "absent"]
    /\ order = [h \in Targets |-> <<>>]
    /\ cand = [h \in Targets |-> <<1, 1>>]
    /\ errors = [h \in Targets |-> <<>>]
    /\ attempts = [h \in Targets |-> <<>>]
    /\ chunks = [h \in Targets |-> <<>>]
    /\ timedSends = [h \in Targets |-> 0]
    /\ sessions = [h \in Targets |-> 0]
    /\ expired = [h \in Targets |-> FALSE]
    /\ expiredDuring = [h \in Targets |-> "no"]
    /\ writeFails = [h \in Targets |-> 0]
    /\ future = [h \in Targets |-> Pending]
    /\ artifacts = [f \in Files |-> NoFile]
    /\ consulted = [h \in Targets |-> FALSE]

\* the deadline is never met, every write succeeds and no wait times out
NextProfiles ==
    \/ \E t \in ProbeTargets : ProbeStart(t)
    \/ \E t \in ProbeTargets : ProbeEnd(t)
    \/ Submit
    \/ \E h \in Targets : StartTask(h)
    \/ \E h \in Targets : Classify(h)
    \/ \E h \in Targets : SkipTelnet(h)
    \/ \E h \in Targets : BeginAttempt(h)
    \/ \E h \in Targets : ConnectFail(h)
    \/ \E h \in Targets : ConnectOk(h)
    \/ \E h \in Targets : Enable(h)
    \/ \E h \in Targets : SendCommand(h)
    \/ \E h \in Targets : WriteArtifact(h)
    \/ \E h \in Targets : ReturnOk(h)
    \/ \E h \in Targets : ReturnFail(h)
    \/ \E h \in Targets : Collect(h)
    \/ Report

SpecProfiles == InitProfiles /\ [][NextProfiles]_vars

\* ------------------------------------------------------------------------
\* The run from its command line: expansion and exclusion, then the probes
\* ------------------------------------------------------------------------
\* --targets and --cidr of the runs explored: tokens given twice and padded
\* with blanks; two spellings of one address and a /31; a name, a range with a
\* blank range and a range that is one address; an address of another network
\* and a range with host bits set; a /29 alone; a malformed range after a good
\* one; a malformed range first; nothing
CommandLines ==
    {[targets |-> <<"10.0.0.2", " 10.0.0.1 ", "10.0.0.2", "">>, cidr |-> <<>>],
     [targets |-> <<"fe80::1", "FE80::1">>, cidr |-> <<"10.0.0.2/31">>],
     [targets |-> <<"sw1", "10.0.0.2">>, cidr |-> <<"10.0.0.0/30", " ", "10.0.0.1">>],
     [targets |-> <<"10.1.2.3">>, cidr |-> <<"10.0.0.5/30">>],
     [targets |-> <<>>, cidr |-> <<"10.0.0.0/29">>],
     [targets |-> <<"10.0.0.1">>, cidr |-> <<"10.0.0.0/30", "10.0.0.0/33">>],
     [targets |-> <<"10.0.0.1">>, cidr |-> <<"banana", "10.0.0.0/30">>],
     [targets |-> <<>>, cidr |-> <<>>]}

\* a device that answers on port 22
SshDevice ==
    [open |-> FALSE, ssh |-> TRUE, telnet |-> FALSE, detect |-> None,
     accepts |-> {}, enable |-> TRUE, raising |-> {}, output |-> "OUT"]

\* the environment of a run with its command line
TargetEnvs ==
    {Update(GenericEnv, [args_targets |-> c.targets, args_cidr |-> c.cidr,
                         EXCLUDE_IPS |-> x]) :
        c \in CommandLines, x \in ExcludeLists}

InitTargets ==
    /\ \E e \in TargetEnvs : env = e
    /\ device = SshDevice
    /\ targets = <<>>
    /\ probe = [t \in ProbeTargets |-> "absent"]
    /\ firstRun = NoRun
    /\ inventory = <<>>
    /\ normalized = NotNormalized
    /\ NoRender
    /\ live = {}
    /\ mainPc = "expand"
    /\ raisedInMain = None
    /\ pending = {}
    /\ results = <<>>
    /\ done = 0
    /\ heartbeats = 0
    /\ completed_any = FALSE
    /\ pc = [h \in Targets |-> "absent"]
    /\ order = [h \in Targets |-> <<>>]
    /\ cand = [h \in Targets |-> <<1, 1>>]
    /\ errors = [h \in Targets |-> <<>>]
    /\ attempts = [h \in Targets |-> <<>>]
    /\ chunks = [h \in Targets |-> <<>>]
    /\ timedSends = [h \in Targets |-> 0]
    /\ sessions = [h \in Targets |-> 0]
    /\ expired = [h \in Targets |-> FALSE]
    /\ expiredDuring = [h \in Targets |-> "no"]
    /\ writeFails = [h \in Targets |-> 0]
    /\ future = [h \in Targets |-> Pending]
    /\ artifacts = [f \in Files |-> NoFile]
    /\ consulted = [h \in Targets |-> FALSE]

\* line 476: targets = list(iter_targets(args.targets, args.cidr))
Expand ==
    /\ mainPc = "expand"
    /\ ~iter_targets(env.args_targets, env.args_cidr).raised
    /\ targets' = iter_targets(env.args_targets, env.args_cidr).yielded
    /\ mainPc' = "exclude"
    /\ UNCHANGED <<env, device, stageVars, firstRun, live, probe, raisedInMain, pending,
                   results, done, heartbeats, completed_any, taskVars, clockVars>>

\* line 476: the ValueError of ip_network leaves the generator, list() and main;
\* what the generator had yielded is lost with it
ExpandRaises ==
    /\ mainPc = "expand"
    /\ iter_targets(env.args_targets, env.args_cidr).raised
    /\ mainPc' = "crashed"
    /\ raisedInMain' = "ValueError"
    /\ UNCHANGED <<env, device, stageVars, targets, firstRun, live, probe, pending,
                   results, done, heartbeats, completed_any, taskVars, clockVars>>

\* lines 477-531: the exclusion block; main returns when no target is left
ExcludeTargets ==
    /\ mainPc = "exclude"
    /\ targets' = Exclude(targets)
    /\ probe' = [t \in ProbeTargets |->
                    IF t \in Filtered({targets[i] : i \in 1..Len(targets)})
                    THEN "waiting" ELSE "absent"]
    /\ mainPc' = IF targets' = <<>> THEN "returned" ELSE "probe"
    /\ UNCHANGED <<env, device, stageVars, firstRun, live, raisedInMain, pending,
                   results, done, heartbeats, completed_any, taskVars, clockVars>>

NextTargets ==
    \/ Expand
    \/ ExpandRaises
    \/ ExcludeTargets
    \/ \E t \in ProbeTargets : ProbeStart(t)
    \/ \E t \in ProbeTargets : ProbeEnd(t)
    \/ Submit

SpecTargets == InitTargets /\ [][NextTargets]_vars

\* ------------------------------------------------------------------------
\* The normalize stage run over an inventory
\* ------------------------------------------------------------------------
RECURSIVE Repeat(_, _)
\* the character c, n times
Repeat(c, n) == IF n = 0 THEN "" ELSE c \o Repeat(c, n - 1)

\* how long the long texts of the inventories are
LongText == 100

\* the names, speeds and descriptions of the interfaces explored: with the
\* name Gi1/0/1 a description of 70 characters gives a label of 80 and one of
\* 71 a label of 81
InterfaceNames == {"Gi1/0/1", " Gi1/0/1 ", ""}
InterfaceSpeeds == {None, "1g", " 100 Mbit", "2.5", "auto", Repeat("9", LongText)}
InterfaceDescs ==
    {None, "", "Uplink to ACCESS", Repeat("x", LabelLimit - 10),
     Repeat("x", LabelLimit - 9), "  " \o Repeat("x", LongText) \o "  "}

\* the last interface of an inventory of two
LastInterface == [name |-> "Gi1/0/2", speed |-> "10G", desc |-> None]

\* inventories of one device with one or two interfaces, in the order of
\* iface_sort_key, which is also the order of edge_key
Inventories ==
    {<<[name |-> n, speed |-> s, desc |-> d]>> :
        n \in InterfaceNames, s \in InterfaceSpeeds, d \in InterfaceDescs}
    \cup
    {<<[name |-> n, speed |-> s, desc |-> d], LastInterface>> :
        n \in InterfaceNames, s \in InterfaceSpeeds, d \in InterfaceDescs}

\* the collection stage found no target and returned
NoCollection ==
    /\ env = DefaultEnv
    /\ device = OpenDevice
    /\ targets = <<>>
    /\ probe = [t \in ProbeTargets |-> "absent"]
    /\ firstRun = NoRun
    /\ live = {}
    /\ mainPc = "returned"
    /\ raisedInMain = None
    /\ pending = {}
    /\ results = <<>>
    /\ done = 0
    /\ heartbeats = 0
    /\ completed_any = FALSE
    /\ pc = [h \in Targets |-> "absent"]
    /\ order = [h \in Targets |-> <<>>]
    /\ cand = [h \in Targets |-> <<1, 1>>]
    /\ errors = [h \in Targets |-> <<>>]
    /\ attempts = [h \in Targets |-> <<>>]
    /\ chunks = [h \in Targets |-> <<>>]
    /\ timedSends = [h \in Targets |-> 0]
    /\ sessions = [h \in Targets |-> 0]
    /\ expired = [h \in Targets |-> FALSE]
    /\ expiredDuring = [h \in Targets |-> "no"]
    /\ writeFails = [h \in Targets |-> 0]
    /\ future = [h \in Targets |-> Pending]
    /\ artifacts = [f \in Files |-> NoFile]
    /\ consulted = [h \in Targets |-> FALSE]

InitNormalize ==
    /\ NoCollection
    /\ \E inv \in Inventories : inventory = inv
    /\ normalized = NotNormalized
    /\ NoRender

\* Normalizer(inv).run()
NormalizerRun ==
    /\ ~normalized.ran
    /\ normalized' = [ran |-> TRUE, edges |-> EdgesOf(inventory)]
    /\ UNCHANGED <<env, device, targets, inventory, renderVars, live, firstRun,
                   mainVars, taskVars, clockVars>>

NextNormalize == NormalizerRun

SpecNormalize == InitNormalize /\ [][NextNormalize]_vars

\* ------------------------------------------------------------------------
\* Runs over the stored output of an earlier run
\* ------------------------------------------------------------------------
\* the texts found in data/raw/<ip>.txt: texts that name two vendors, in
\* either order and in either case, texts that name one, and texts that name
\* none
StoredTexts ==
    {"RouterOS 7 behind a Cisco", "cisco then MikroTik", "ELTEX MES2324 Huawei",
     "Huawei VRP near d-link", "D-Link DGS and qtech", "x DES-3200",
     "QTECH QSW cisco", "Cisco IOS-XE 17", "HP ProCurve", ""}

\* the profiles a stored text can name
GuessedIds == {"mikrotik", "eltex_mes", "huawei_vrp", "dlink", "qtech", "cisco_ios"}

\* devices that open a session over SSH, over Telnet only, or not at all
GuessDevices ==
    [open : {FALSE}, ssh : {TRUE}, telnet : BOOLEAN, detect : {None},
     accepts : {{}, GuessedIds \cup {"generic"},
                {id \o "_telnet" : id \in GuessedIds \cup {"generic"}}},
     enable : BOOLEAN, raising : {{}}, output : {"OUT"}]

InitGuess ==
    /\ env = Update(DefaultEnv, [NET_ENABLE |-> "secret", DETECT |-> "0"])
    /\ \E d \in GuessDevices : device = d
    /\ targets = <<"10.0.0.1">>
    /\ probe = [t \in ProbeTargets |-> IF t = "10.0.0.1" THEN "waiting" ELSE "absent"]
    /\ firstRun = NoRun
    /\ inventory = <<>>
    /\ normalized = NotNormalized
    /\ NoRender
    /\ live = {}
    /\ mainPc = "probe"
    /\ raisedInMain = None
    /\ pending = {}
    /\ results = <<>>
    /\ done = 0
    /\ heartbeats = 0
    /\ completed_any = FALSE
    /\ pc = [h \in Targets |-> "absent"]
    /\ order = [h \in Targets |-> <<>>]
    /\ cand = [h \in Targets |-> <<1, 1>>]
    /\ errors = [h \in Targets |-> <<>>]
    /\ attempts = [h \in Targets |-> <<>>]
    /\ chunks = [h \in Targets |-> <<>>]
    /\ timedSends = [h \in Targets |-> 0]
    /\ sessions = [h \in Targets |-> 0]
    /\ expired = [h \in Targets |-> FALSE]
    /\ expiredDuring = [h \in Targets |-> "no"]
    /\ writeFails = [h \in Targets |-> 0]
    /\ future = [h \in Targets |-> Pending]
    /\ \E text \in StoredTexts :
         artifacts = [f \in Files |->
                        IF f = out_path("10.0.0.1") THEN text ELSE NoFile]
    /\ consulted = [h \in Targets |-> FALSE]

SpecGuess == InitGuess /\ [][NextProfiles]_vars

\* ------------------------------------------------------------------------
\* The renderer run over a normalized graph
\* ------------------------------------------------------------------------
\* a node as Normalizer.run builds it: the zone from the hostname, the
\* primary label from the hostname and the address, no VLAN label
NodeOf(hostname, site, class, ip) ==
    [hostname |-> hostname, site |-> site, zone |-> zone_from_hostname(hostname),
     class |-> class,
     primary |-> IF ip = None THEN hostname ELSE hostname \o "\\n" \o ip,
     extra |-> <<>>]

\* the nodes of two sites, in the order of stable_node_key: three in two
\* zones and two in none at DEN, one at MSK
RenderNodes ==
    <<NodeOf("DEN-CORE-10-01", "DEN", "core", "10.0.0.1"),
      NodeOf("DEN-ACC-10-02", "DEN", "access", None),
      NodeOf("DEN-ACC-20-01", "DEN", "access", None),
      NodeOf("sw1", "DEN", "access", None),
      NodeOf("sw2", "DEN", "access", None),
      NodeOf("MSK-CORE-10-01", "MSK", "Core", None)>>

EdgeTo(src, src_intf, dst, dst_intf) ==
    [src |-> src, src_intf |-> src_intf, dst |-> dst, dst_intf |-> dst_intf]

\* edges in the order of edge_key: inside a zone, between two zones of a
\* site, between two sites, from a zone to a node of no zone, between two
\* nodes of no zone, to no peer, to another site from a node of no zone, to
\* a peer that is no node
EdgePool ==
    <<EdgeTo("DEN-CORE-10-01", "Gi1/0/1", "DEN-ACC-10-02", "Gi0/1"),
      EdgeTo("DEN-CORE-10-01", "Gi1/0/2", "DEN-ACC-20-01", None),
      EdgeTo("DEN-CORE-10-01", "Gi1/0/3", "MSK-CORE-10-01", "Gi1/0/1"),
      EdgeTo("DEN-ACC-20-01", "Gi0/2", "sw1", "Gi0/4"),
      EdgeTo("sw1", "Gi0/1", "sw2", "Gi0/2"),
      EdgeTo("sw1", "Gi0/3", None, None),
      EdgeTo("sw1", "Gi0/5", "MSK-CORE-10-01", "Gi1/0/2"),
      EdgeTo("sw2", "Gi0/\"6\"", "isp-gw", None)>>

\* the edges of the pool at the positions of a set, in the order of the pool
PoolEdges(S) == [k \in 1..Cardinality(S) |-> EdgePool[Nth(S, k)]]

\* the graphs handed to the writer: the nodes with one to MaxEdges edges
Graphs ==
    {[nodes |-> RenderNodes, edges |-> PoolEdges(S)] :
        S \in {T \in SUBSET (1..Len(EdgePool)) : Cardinality(T) \in 1..MaxEdges}}

InitRender ==
    /\ NoCollection
    /\ inventory = <<>>
    /\ normalized = NotNormalized
    /\ \E g \in Graphs : norm = g
    /\ use_subgraphs \in BOOLEAN
    /\ mmd = Nothing

\* MermaidWriter(cfg, norm).render()
Render ==
    /\ mmd = Nothing
    /\ norm /= NoGraph
    /\ mmd' = Some(render(norm, use_subgraphs))
    /\ UNCHANGED <<env, device, targets, inventory, normalized, norm, use_subgraphs,
                   live, firstRun, mainVars, taskVars, clockVars>>

NextRender == Render

SpecRender == InitRender /\ [][NextRender]_vars

\* ------------------------------------------------------------------------
\* Properties
\* ------------------------------------------------------------------------
Finished(h) == future[h].kind = "result"
IsOk(h) == Finished(h) /\ future[h].value.status = "ok"
IsFail(h) == Finished(h) /\ future[h].value.status = "fail"

\* the positions of results that hold an outcome for the address of h
ResultsOf(h) == {i \in 1..Len(results) : results[i].ip = Address(h)}

\* the live targets that are the address of h
TasksOf(h) == {g \in live : Address(g) = Address(h)}

C2_RaisedTaskIsContained ==
    (\E h \in live : pc[h] = "raised") => mainPc \notin {"unwind", "crashed"}

\* the entries of an error list that report a failed session attempt
IsAttemptDiag(e) ==
    /\ e \notin {DeadlineDiag, AutodetectDiag}
    /\ ~Contains(e, "enable() failed")
AttemptDiags(errs) == SelectSeq(errs, IsAttemptDiag)

\* C3: when gather_one returns ok after N attempts, the error list holds the
\* failure diagnostic of each of the attempts 1..N-1, in order, and the
\* identifier returned is that of attempt N: no attempt follows the one that
\* succeeded.
C3_FailuresBeforeSuccessRecorded ==
    \A h \in live :
        IsOk(h) =>
            LET n == Len(attempts[h])
            IN  /\ n >= 1
                /\ AttemptDiags(errors[h]) = [i \in 1..(n - 1) |-> AttemptDiag(attempts[h][i].dt)]
                /\ future[h].value.device_type = attempts[h][n].dt

\* C3 witness: a host that succeeded on its third attempt or later
C3_Witness == \E h \in live : IsOk(h) /\ Len(attempts[h]) >= 3

\* C4: every fail outcome carries between 1 and 4 diagnostics.
C4_FailDiagnosticsBounded ==
    \A h \in live :
        IsFail(h) => Len(future[h].value.errors) >= 1 /\ Len(future[h].value.errors) <= 4

\* C4 witness: a fail outcome of a host with more than 4 recorded errors
C4_Witness == \E h \in live : IsFail(h) /\ Len(errors[h]) > 4

\* C5: an ok outcome has a non-empty device type, and the artifact of its
\* address has been written.
C5_OkHasTypeAndArtifact ==
    \A h \in live :
        IsOk(h) => future[h].value.device_type /= "" /\ artifacts[out_path(Address(h))] /= NoFile

\* C5 witness: an ok outcome over Telnet
C5_Witness ==
    \E h \in live : IsOk(h) /\ Contains(future[h].value.device_type, "_telnet")

\* C6: no session attempt begins once the deadline of the host has passed.
C6_NoAttemptAfterDeadline ==
    \A h \in live : \A i \in 1..Len(attempts[h]) : ~attempts[h][i].late

\* the candidates of h: two per profile of its order
NumCandidates(h) == Len(order[h]) * Len(TRANSPORTS)

\* C6 witness: the deadline passed during an attempt, which went on to its end
\* and failed, and the host ended fail with candidates never attempted
C6_Witness ==
    \E h \in live :
        /\ IsFail(h) /\ expiredDuring[h] = "first"
        /\ Len(attempts[h]) = 1 /\ NumCandidates(h) > 2

\* C7 (as claimed): when the deadline passes before the first attempt is over,
\* the outcome is fail with a deadline-exceeded diagnostic.
C7_ShortDeadlineAlwaysFails ==
    \A h \in live :
        Finished(h) /\ expiredDuring[h] \in {"before", "first"} =>
            IsFail(h) /\ \E i \in 1..Len(future[h].value.errors) :
                              future[h].value.errors[i] = DeadlineDiag

\* C7 (amended): when the deadline passes before the first attempt is over, no
\* attempt is started after it. The outcome is ok when that one attempt
\* succeeds; otherwise it is fail, with a deadline-exceeded diagnostic unless
\* the only candidate left was a Telnet candidate skipped on its port check.
C7_ShortDeadlineStopsCandidates ==
    \A h \in live :
        Finished(h) /\ expiredDuring[h] \in {"before", "first"} =>
            /\ Len(attempts[h]) <= 1
            /\ IsOk(h) => Len(attempts[h]) = 1
            /\ IsFail(h) =>
                  \/ \E i \in 1..Len(future[h].value.errors) :
                        future[h].value.errors[i] = DeadlineDiag
                  \/ Len(order[h]) = 1 /\ Len(attempts[h]) = 1

\* C7 witness: the deadline passed during the first attempt, which failed, and
\* the outcome is fail with the deadline diagnostic
C7_Witness ==
    \E h \in live :
        /\ IsFail(h) /\ expiredDuring[h] = "first"
        /\ \E i \in 1..Len(future[h].value.errors) : future[h].value.errors[i] = DeadlineDiag

\* C8 (as claimed): a fail outcome of a host stopped by its deadline ends with
\* the deadline-exceeded diagnostic.
C8_DeadlineDiagIsLast ==
    \A h \in live :
        IsFail(h) /\ (\E i \in 1..Len(errors[h]) : errors[h][i] = DeadlineDiag) =>
            future[h].value.errors[Len(future[h].value.errors)] = DeadlineDiag

\* the lines of an artifact that mark a command
IsMarker(line) == Len(line) >= 2 /\ SubSeq(line, 1, 2) = "$ "
MarkerLines(text) == SelectSeq(SplitLines(text), IsMarker)

\* C9: the artifact a session has just written holds one marker line per
\* command of the profile's list, in list order, whatever each command returned
\* or raised.
C9_OneMarkerPerCommand ==
    \A h \in live :
        pc[h] = "disconnect" =>
            LET cmds == CommandsOf(Dt(h))
            IN  MarkerLines(artifacts[out_path(Address(h))]) = [i \in 1..Len(cmds) |-> "$ " \o cmds[i]]

\* C9 witness: an artifact written by a session whose first command raised and
\* whose list has commands after it
C9_Witness ==
    \E h \in live :
        /\ pc[h] = "disconnect"
        /\ Len(CommandsOf(Dt(h))) >= 2
        /\ Contains(artifacts[out_path(Address(h))], ErrorChunk(CommandsOf(Dt(h))[1]) \o "\n")

\* C10 (as claimed): an error marker stands for a command only after a
\* time-boxed, non-prompt-aware send of it was tried.
C10_ErrorMarkerOnlyAfterRetry ==
    \A h \in live :
        (pc[h] = "commands"
         /\ \E i \in 1..Len(chunks[h]) : chunks[h][i] = ErrorChunk(CommandsOf(Dt(h))[i]))
        => timedSends[h] >= 1

\* whether e is among the entries of the list errs
Among(e, errs) == \E i \in 1..Len(errs) : errs[i] = e

\* the last attempt of h
LastAttempt(h) == attempts[h][Len(attempts[h])]

\* C11: elevation is attempted in a session only when the profile of its
\* device type requires it and an enable secret was supplied; when it failed,
\* its diagnostic is in the error list, and the artifact the same session
\* writes still holds the marker of every command of the profile.
C11_ElevationOnlyWhenRequired ==
    \A h \in live :
        /\ \A i \in 1..Len(attempts[h]) :
              LET a == attempts[h][i]
              IN  /\ a.enable /= "none" =>
                        /\ Get(merge_commands_for(a.dt), "pre_enable", FALSE)
                        /\ env.NET_ENABLE /= ""
                  /\ a.enable = "failed" => Among(EnableDiag(a.dt), errors[h])
        /\ (pc[h] = "disconnect" /\ LastAttempt(h).enable = "failed") =>
              LET cmds == CommandsOf(LastAttempt(h).dt)
              IN  MarkerLines(artifacts[out_path(Address(h))])
                      = [i \in 1..Len(cmds) |-> "$ " \o cmds[i]]

\* C11 witness: a host that ended ok in a session whose elevation failed
C11_Witness ==
    \E h \in live : IsOk(h) /\ LastAttempt(h).enable = "failed"

\* the candidates of a profile list, in the order claimed: for each profile its
\* SSH device type, then its Telnet device type
ClaimedCandidates(ord) ==
    [n \in 1..(2 * Len(ord)) |->
        IF n % 2 = 1 THEN ord[(n + 1) \div 2] ELSE ord[n \div 2] \o "_telnet"]

\* the position of a device type in a list of candidates, 0 when it is not one
PositionIn(dt, cands) ==
    IF \E n \in 1..Len(cands) : cands[n] = dt
    THEN CHOOSE n \in 1..Len(cands) : cands[n] = dt
    ELSE 0

Classified(h) == pc[h] \notin {"absent", "queued", "start", "raised"}

\* C12: the profile list of a classified host is one resolved profile or the
\* default list cisco_ios, hp_procurve, juniper_junos, generic; its attempts
\* are candidates of that list taken in strictly increasing position (SSH
\* before Telnet within a profile), and the attempt in progress is the last
\* one begun.
C12_AttemptsInCandidateOrder ==
    \A h \in live :
        Classified(h) =>
            LET cands == ClaimedCandidates(order[h])
            IN  /\ \/ Len(order[h]) = 1
                   \/ order[h] = <<"cisco_ios", "hp_procurve", "juniper_junos", "generic">>
                /\ \A i \in 1..Len(attempts[h]) : PositionIn(attempts[h][i].dt, cands) > 0
                /\ \A i, j \in 1..Len(attempts[h]) :
                      i < j => PositionIn(attempts[h][i].dt, cands)
                                  < PositionIn(attempts[h][j].dt, cands)
                /\ pc[h] \in {"connect", "enable", "commands", "disconnect"} =>
                      Dt(h) = LastAttempt(h).dt

\* C12 witness: a host of the default list whose second attempt was Telnet and
\* whose third was the SSH candidate of the next profile
C12_Witness ==
    \E h \in live :
        /\ Len(attempts[h]) >= 3
        /\ attempts[h][1].dt = "cisco_ios"
        /\ attempts[h][2].dt = "cisco_ios_telnet"
        /\ attempts[h][3].dt = "hp_procurve"

\* C13: every Telnet attempt was begun after the check of port 23 made for its
\* candidate answered; no check is made for an SSH attempt.
C13_TelnetOnlyAfterOpenPort ==
    \A h \in live : \A i \in 1..Len(attempts[h]) :
        LET a == attempts[h][i]
        IN  IF Contains(a.dt, "_telnet") THEN a.port23 = "open"
            ELSE a.port23 = "unchecked"

\* C13 witness: the Telnet candidate of the first profile was skipped and the
\* Telnet candidate of the second one attempted
C13_Witness ==
    \E h \in live :
        /\ Len(attempts[h]) >= 3
        /\ attempts[h][1].dt = "cisco_ios"
        /\ attempts[h][2].dt = "hp_procurve"
        /\ attempts[h][3].dt = "hp_procurve_telnet"

\* C14: a gather_one task exists, and a session is attempted, only for a target
\* on which port 22 or port 23 answered the probe.
C14_OnlyLiveTargetsGathered ==
    /\ \A t \in live \cup pending : probe[t] = "open"
    /\ \A h \in Targets : (pc[h] /= "absent" \/ attempts[h] /= <<>>) => probe[h] = "open"

\* C14 witness: a run over two targets has returned, one whose ports did not
\* answer and for which nothing ran, one for which sessions were attempted
C14_Witness ==
    /\ mainPc = "returned"
    /\ \E g, h \in Targets :
         /\ probe[g] = "closed" /\ pc[g] = "absent"
         /\ probe[h] = "open" /\ attempts[h] /= <<>>

\* what a run holds about one host: where its task is, its profile list, its
\* attempts, its diagnostics, its outcome, its deadline, and its artifact file
HostState(h) ==
    <<pc[h], order[h], cand[h], errors[h], attempts[h], chunks[h], future[h],
      expired[h], artifacts[out_path(Address(h))]>>

\* a step of the task of g, or of the clock of its deadline
StepOf(g) ==
    \/ StartTask(g) \/ Classify(g) \/ Expire(g) \/ SkipTelnet(g)
    \/ DeadlineBreak(g) \/ BeginAttempt(g) \/ ConnectFail(g) \/ ConnectOk(g)
    \/ Enable(g) \/ SendCommand(g) \/ WriteArtifact(g) \/ WriteFail(g)
    \/ ReturnOk(g) \/ ReturnFail(g)

\* C15: what the run holds about a host (status, identifier, diagnostics,
\* attempts, artifact) changes only when its task is submitted and in the
\* steps of a task of its own address: no step of the task of another host,
\* whether it fails, runs out of candidates or meets its deadline, and no step
\* of the coordinator, changes it.
C15_HostsIsolated ==
    [][\A h \in live :
          HostState(h)' /= HostState(h) =>
              \/ Submit
              \/ \E g \in live : Address(g) = Address(h) /\ StepOf(g)]_vars

\* C15 witness: of two hosts of a run that has returned, one failed on its
\* deadline and the other, whose deadline never passed, ended ok
C15_Witness ==
    /\ mainPc = "returned"
    /\ \E g, h \in live :
         /\ Address(g) /= Address(h)
         /\ IsFail(g) /\ Among(DeadlineDiag, future[g].value.errors)
         /\ IsOk(h) /\ expiredDuring[h] = "no"

\* C16 (as claimed): when the wait of the coordinator times out with tasks
\* outstanding, a heartbeat line is printed and the wait goes on: the timeout
\* never leaves main as an exception.
C16_TimeoutKeepsWaiting ==
    raisedInMain /= "concurrent.futures.TimeoutError"

\* C17: the gather_one tasks in progress never exceed the session worker
\* count, the probes in progress never exceed the size of the probe pool, and
\* that size is within 4..256 whatever was asked for.
C17_PoolsBounded ==
    /\ Cardinality({h \in Targets : Running(h)}) <= env.max_workers
    /\ Cardinality(Probing) <= tcp_workers
    /\ tcp_workers >= 4 /\ tcp_workers <= 256

\* C17 witness: a pool asked to be of size 2 runs 4 probes, and a target waits
C17_Witness ==
    /\ env.tcp_workers = 2
    /\ Cardinality(Probing) = 4
    /\ \E t \in ProbeTargets : probe[t] = "waiting"

\* C18 (as claimed): no two tasks of a run have the same address: two tasks
\* that are running never write the same artifact file.
C18_RunningTasksWriteDistinctFiles ==
    \A g, h \in live :
        (g /= h /\ Running(g) /\ Running(h)) =>
            out_path(Address(g)) /= out_path(Address(h))

\* what an outcome says the host was collected as; None for a fail outcome
ResolvedOf(o) == IF o.status = "ok" THEN o.device_type ELSE None

\* C19 (as claimed): when main has returned from a second run with the same
\* inputs against a device whose answers are fixed, every host has the status
\* and the device type the first run gave it.
C19_SecondRunResolvesAsFirst ==
    (firstRun.kind = "run" /\ mainPc = "returned") =>
        \A h \in live :
            /\ future[h].value.status = firstRun.future[h].value.status
            /\ ResolvedOf(future[h].value) = ResolvedOf(firstRun.future[h].value)

\* C20: under a configured override, the profile list of every classified
\* host is the override alone, every attempt and every ok outcome is of the
\* override profile over SSH or Telnet, and classification has read neither
\* the stored output, nor the hint table, nor the answer of autodetect.
C20_OverrideDecides ==
    LET pref == Strip(env.PREFER_VENDOR)
    IN  pref /= "" =>
          \A h \in live :
            Classified(h) =>
              /\ order[h] = <<pref>>
              /\ ~consulted[h]
              /\ \A i \in 1..Len(attempts[h]) :
                    attempts[h][i].dt \in {pref, pref \o "_telnet"}
              /\ IsOk(h) => future[h].value.device_type \in {pref, pref \o "_telnet"}

\* C20 witness: a second run under the override has collected a host for
\* which the stored output, the hint table and autodetect each name another
\* profile
C20_Witness ==
    /\ Strip(env.PREFER_VENDOR) = "generic"
    /\ firstRun.kind = "run"
    /\ \E h \in live :
         /\ IsOk(h)
         /\ vendor_hint_from_raw(Address(h)) = "mikrotik"
         /\ vendor_hint_for_ip(Address(h)) = "hp_procurve"
         /\ device.detect = "aruba_procurve"

\* the positions of vendor_hints.json whose range parses and holds ip
MatchingHints(ip) ==
    {i \in 1..Len(env.hints) : env.hints[i].valid /\ ip \in env.hints[i].net}

\* the task of h has classified and has not yet rewritten the stored output
\* its classification read
BeforeWrite(h) == pc[h] \in {"loop", "connect", "enable", "commands"}

\* C21: without an override, a host whose stored output names a vendor is
\* given that vendor as its one profile, whatever the range table says; a host
\* with no such match that lies in a range of the table is given the vendor of
\* the first such entry in table order; classification reads the table only
\* when the stored output gives nothing and runs detection only when neither
\* resolves, and only then can the profile come from detection or be the
\* default list.
C21_StoredOutputThenTableThenDetection ==
    Strip(env.PREFER_VENDOR) = "" =>
      \A h \in live :
        LET ip == Address(h)
            raw == vendor_hint_from_raw(ip)
            rows == MatchingHints(ip)
            first == CHOOSE i \in rows : \A j \in rows : i <= j
        IN  /\ pc[h] = "start" =>
                \A ssh_open \in SshAnswers, detect \in DetectAnswers :
                    LET c == Classification(ip, ssh_open, detect)
                    IN  /\ raw /= None => c.used = {"raw"}
                        /\ "detect" \in c.used => raw = None /\ rows = {}
            /\ BeforeWrite(h) =>
                /\ raw /= None => order[h] = <<raw>>
                /\ (raw = None /\ rows /= {}) => order[h] = <<env.hints[first].vendor>>
                /\ (raw /= None \/ rows /= {}) => ~Among(AutodetectDiag, errors[h])

\* C21 witness: in a second run with no override, the stored output names
\* mikrotik, the range table names hp_procurve before juniper_junos, autodetect
\* would answer, and the host is being collected as mikrotik
C21_Witness ==
    /\ Strip(env.PREFER_VENDOR) = ""
    /\ firstRun.kind = "run"
    /\ device.detect = "aruba_procurve"
    /\ \E h \in live :
         /\ BeforeWrite(h)
         /\ vendor_hint_from_raw(Address(h)) = "mikrotik"
         /\ Cardinality(MatchingHints(Address(h))) = 2
         /\ order[h] = <<"mikrotik">>

\* C22 (as claimed): classification never raises out of gather_one: no task
\* of a run ends with an exception, every task returns an outcome.
C22_ClassificationNeverRaises ==
    \A h \in Targets : future[h].kind /= "exception"

\* what the two .txt files of the model supply: their command lines and the
\* value of their last directive
TxtSupplies ==
    [lines \in TxtFiles |->
        IF Len(lines) > 1
        THEN [list |-> Some(<<"show arp", "show mac">>), flag |-> Some(TRUE)]
        ELSE [list |-> Nothing, flag |-> Some(FALSE)]]

\* what the override file of profile id supplies: a command list, an
\* elevation flag, both or neither
Supplied(id) ==
    IF id \in DOMAIN env.overrides
    THEN LET raw == env.overrides[id]
         IN  [list |-> IF "commands" \in DOMAIN raw THEN Some(raw["commands"]) ELSE Nothing,
              flag |-> IF "pre_enable" \in DOMAIN raw /\ raw["pre_enable"].type = "bool"
                       THEN Some(raw["pre_enable"].value) ELSE Nothing]
    ELSE IF id \in DOMAIN env.txt THEN TxtSupplies[env.txt[id]]
    ELSE [list |-> Nothing, flag |-> Nothing]

\* the built-in profile of id: its own, or generic for an unknown id
BuiltinOf(id) == Get(COMMANDS_BY_TYPE, id, COMMANDS_BY_TYPE["generic"])

\* the marker lines of a session that ran cmds
MarkersOf(cmds) == [i \in 1..Len(cmds) |-> "$ " \o cmds[i]]

\* the commands the session of an ok host ran, read from its artifact
RanCommands(h) == MarkerLines(artifacts[out_path(Address(h))])

\* the session of an ok host tried to elevate
TriedEnable(h) == LastAttempt(h).enable /= "none"

\* C23 (as claimed): a host collected under an override that supplies a
\* command list ran exactly the entries of that list.
C23_OverrideListTakenAsIs ==
    \A h \in live :
        (IsOk(h) /\ Supplied(order[h][1]).list /= Nothing) =>
            RanCommands(h) = MarkersOf(Supplied(order[h][1]).list[1])

\* C23 (amended): a host collected under an override ran exactly the entries
\* of the override's list that are not blank, and no built-in command, when
\* the list has such an entry; it ran the built-in list when the override
\* supplies no list or a list with no such entry. Its session tried to elevate
\* (a secret being supplied) exactly when the override's flag says so if the
\* override supplies a flag, and when the built-in flag says so otherwise.
C23_OverrideReplacesWholesale ==
    \A h \in live :
        IsOk(h) =>
            LET sup == Supplied(order[h][1])
                builtin == BuiltinOf(order[h][1])
                kept == IF sup.list = Nothing THEN <<>>
                        ELSE SelectSeq(sup.list[1], NotBlank)
            IN  /\ RanCommands(h) =
                      MarkersOf(IF kept /= <<>> THEN kept ELSE builtin.commands)
                /\ TriedEnable(h) =
                      (IF sup.flag /= Nothing THEN sup.flag[1] ELSE builtin.pre_enable)

\* C23 witness: under generic.json with pre_enable true and the commands
\* " ", "show arp", "", "show mac", a host was collected by show arp and show
\* mac after an attempt to elevate
C23_Witness ==
    /\ "generic" \in DOMAIN env.overrides
    /\ \E h \in live :
         /\ IsOk(h)
         /\ order[h] = <<"generic">>
         /\ Supplied("generic").list /= Nothing
         /\ Len(Supplied("generic").list[1]) = 4
         /\ RanCommands(h) = <<"$ show arp", "$ show mac">>
         /\ TriedEnable(h)

\* C24: for every profile id, merge_commands_for of the Telnet device type has
\* no extends key and is the profile of the SSH device type; a host collected
\* over Telnet ran the command list of the SSH device type and tried to
\* elevate exactly when that profile's flag is set.
C24_TelnetProfileIsSshProfile ==
    /\ \A id \in ProfileIds \cup {"hp_procurve", "juniper_junos"} :
         /\ "extends" \notin DOMAIN merge_commands_for(id \o "_telnet")
         /\ merge_commands_for(id \o "_telnet") = merge_commands_for(id)
    /\ \A h \in live :
         (IsOk(h) /\ LastAttempt(h).dt = order[h][1] \o "_telnet") =>
            /\ RanCommands(h) = MarkersOf(CommandsOf(order[h][1]))
            /\ TriedEnable(h) = PreEnableOf(order[h][1])

\* C24 witness: under cisco_ios.json with pre_enable false, a host was
\* collected over Telnet by the five built-in commands without elevation
C24_Witness ==
    /\ "cisco_ios" \in DOMAIN env.overrides
    /\ \E h \in live :
         /\ IsOk(h)
         /\ future[h].value.device_type = "cisco_ios_telnet"
         /\ Supplied("cisco_ios").flag = Some(FALSE)
         /\ Len(RanCommands(h)) = 5
         /\ ~TriedEnable(h)

\* the literal tokens of the command line, blanks around them removed, the
\* empty ones left out
Tokens == SelectSeq(StripAll(env.args_targets), LAMBDA t : t /= "")

\* the ranges of the command line that are not blank
Ranges == SelectSeq(StripAll(env.args_cidr), LAMBDA c : c /= "")

\* the place of the first occurrence of x in list
FirstIndex(list, x) == Least({i \in 1..Len(list) : list[i] = x})

\* the host addresses of the r-th range
HostSet(r) == {RangeHosts(Ranges[r])[i] : i \in 1..Len(RangeHosts(Ranges[r]))}

\* the first range that has the address s among its hosts
FirstRange(s) == Least({r \in 1..Len(Ranges) : s \in HostSet(r)})

\* how many distinct literal tokens the command line has
NumTokens == Cardinality({Tokens[i] : i \in 1..Len(Tokens)})

\* C25: the list iter_targets returns holds no string twice; it begins with
\* the distinct literal tokens in the order of their first occurrence and
\* goes on, range after range in the order given, with the host addresses of
\* the range in ascending order that were not emitted before; every token and
\* every host address of every range is in it.
C25_ExpansionOrderedAndDistinct ==
    mainPc = "exclude" =>
        /\ \A i, j \in 1..Len(targets) : i /= j => targets[i] /= targets[j]
        /\ {targets[i] : i \in 1..Len(targets)} =
              {Tokens[i] : i \in 1..Len(Tokens)} \cup UNION {HostSet(r) : r \in 1..Len(Ranges)}
        /\ \A i \in 1..Len(targets) :
              i <= NumTokens <=> targets[i] \in {Tokens[k] : k \in 1..Len(Tokens)}
        /\ \A i, j \in 1..Len(targets) :
              (i < j /\ j <= NumTokens) =>
                 FirstIndex(Tokens, targets[i]) < FirstIndex(Tokens, targets[j])
        /\ \A i, j \in 1..Len(targets) :
              (NumTokens < i /\ i < j) =>
                 \/ FirstRange(targets[i]) < FirstRange(targets[j])
                 \/ /\ FirstRange(targets[i]) = FirstRange(targets[j])
                    /\ IPv4Value(targets[i]) < IPv4Value(targets[j])

\* C25 witness: --targets sw1 10.0.0.2 --cidr 10.0.0.0/30 " " 10.0.0.1 was
\* expanded to sw1, 10.0.0.2, 10.0.0.1
C25_Witness ==
    /\ mainPc = "exclude"
    /\ env.args_cidr = <<"10.0.0.0/30", " ", "10.0.0.1">>
    /\ targets = <<"sw1", "10.0.0.2", "10.0.0.1">>

\* the addresses of the model that an entry of EXCLUDE_IPS excludes, in the
\* spelling of str(ipaddress.ip_address(...))
ExcludedBy(entry) ==
    CASE entry = "10.0.0.2" -> {"10.0.0.2"}
      [] entry = "10.0.0.3/31" -> {"10.0.0.2", "10.0.0.3"}
      [] entry = "FE80::1" -> {"fe80::1"}
      [] entry = "10.0.0.0" ->
            {"10.0.0.1", "10.0.0.2", "10.0.0.3", "10.0.0.4", "10.0.0.5", "10.0.0.6"}
      [] entry = "10.1.2.0" -> {"10.1.2.3"}
      [] OTHER -> {}

\* every address of the model that EXCLUDE_IPS excludes
ExcludedAddresses == UNION {ExcludedBy(env.EXCLUDE_IPS[i]) : i \in 1..Len(env.EXCLUDE_IPS)}

\* C26: once the exclusion pass is over, no entry of the target list, no
\* address handed to a probe and no live address is an excluded address or
\* lies in an excluded range, a bare a.b.c.0 standing for its /24 and a bare
\* a.b.0.0 for its /16.
C26_ExcludedNeverProbed ==
    mainPc \notin {"expand", "exclude"} =>
        /\ \A i \in 1..Len(targets) : str_ip_address(targets[i]) \notin ExcludedAddresses
        /\ \A t \in ProbeTargets :
              probe[t] /= "absent" => str_ip_address(Address(t)) \notin ExcludedAddresses
        /\ \A t \in live : str_ip_address(Address(t)) \notin ExcludedAddresses

\* C26 witness: of the six hosts of 10.0.0.0/29, with 10.0.0.3/31 excluded,
\* the four outside 10.0.0.2/31 were probed and 10.0.0.1 is live
C26_Witness ==
    /\ env.EXCLUDE_IPS = <<"10.0.0.3/31", "FE80::1">>
    /\ env.args_cidr = <<"10.0.0.0/29">>
    /\ targets = <<"10.0.0.1", "10.0.0.4", "10.0.0.5", "10.0.0.6">>
    /\ live = {"10.0.0.1"}
    /\ \A t \in {"10.0.0.4", "10.0.0.5", "10.0.0.6"} : probe[t] = "closed"

\* the range specifications of the model that are malformed
MalformedRanges == {"10.0.0.0/33", "banana"}

\* C27: in a run whose command line has a malformed range, main ends by the
\* ValueError of the expansion: no target list is ever held, no probe is made
\* and no task is submitted.
C27_MalformedRangeAborts ==
    (\E i \in 1..Len(env.args_cidr) : env.args_cidr[i] \in MalformedRanges) =>
        /\ mainPc \in {"expand", "crashed"}
        /\ mainPc = "crashed" => raisedInMain = "ValueError"
        /\ targets = <<>>
        /\ \A t \in ProbeTargets : probe[t] = "absent"
        /\ live = {}
        /\ \A h \in Targets : pc[h] = "absent"

\* C27 witness: --cidr 10.0.0.0/30 10.0.0.0/33 ended main by ValueError after
\* the first range had been expanded, and no target list was kept
C27_Witness ==
    /\ env.args_cidr = <<"10.0.0.0/30", "10.0.0.0/33">>
    /\ iter_targets(env.args_targets, env.args_cidr).yielded = <<"10.0.0.1", "10.0.0.2">>
    /\ mainPc = "crashed"
    /\ raisedInMain = "ValueError"
    /\ targets = <<>>

\* how many entries of live stand for the address of the target t
LiveEntries(t) == Cardinality({g \in live : Address(g) = Address(t)})

\* C28 (as claimed): once the probes are over, every live entry is a target,
\* and the address of a target is in the live set once if one of its probes
\* found port 22 or port 23 open, and not at all otherwise.
C28_LiveExactlyOnce ==
    (\A t \in ProbeTargets : probe[t] \in {"absent", "open", "closed"}) =>
        /\ \A g \in live : probe[g] /= "absent"
        /\ \A t \in ProbeTargets :
              probe[t] /= "absent" =>
                 LiveEntries(t) =
                    (IF \E g \in ProbeTargets : Address(g) = Address(t) /\ probe[g] = "open"
                     THEN 1 ELSE 0)

\* C29 (as claimed): when a host fails without its deadline having passed,
\* each diagnostic of the fail outcome begins with the device type of one of
\* the session attempts made for the host.
C29_DiagnosticsNameTheirProfile ==
    \A h \in live :
        (IsFail(h) /\ ~Seen(DeadlineDiag, errors[h])) =>
            \A i \in 1..Len(future[h].value.errors) :
                \E k \in 1..Len(attempts[h]) :
                    StartsWith(future[h].value.errors[i], attempts[h][k].dt \o ": ")

\* the label of an interface before truncate, built from its fields
FullLabel(itf) == JoinedLabel(Strip(itf.name), normalize_speed(itf.speed), itf.desc)

\* C30: every edge Normalizer.run produces has no label or a label of at most
\* 80 characters.
C30_EdgeLabelsAtMostEighty ==
    \A i \in 1..Len(normalized.edges) :
        normalized.edges[i].label /= Nothing =>
            Len(normalized.edges[i].label[1]) <= LabelLimit

\* C30 witness: an interface whose name, speed and description make more than
\* 80 characters got a label of 80 characters that ends with the ellipsis,
\* next to an interface whose label was kept whole
C30_Witness ==
    /\ normalized.ran
    /\ Len(normalized.edges) = 2
    /\ Len(FullLabel(inventory[1])) > LabelLimit
    /\ inventory[1].desc /= None
    /\ inventory[1].speed = " 100 Mbit"
    /\ Len(normalized.edges[1].label[1]) = LabelLimit
    /\ SubSeq(normalized.edges[1].label[1], LabelLimit, LabelLimit) = Ellipsis
    /\ normalized.edges[2].label = Some("Gi1/0/2 | 10G")

\* C31: the step that closes the session of a host whose output was written
\* ends the task with the ok outcome of the device type of its last attempt,
\* whether conn.disconnect() returned or raised, and changes neither the
\* error list, nor the attempts, nor the artifact of the host.
C31_CloseFailureSwallowed ==
    [][\A h \in live :
          (pc[h] = "disconnect" /\ pc'[h] /= "disconnect") =>
             /\ pc'[h] = "done"
             /\ future'[h] =
                   [kind |-> "result",
                    value |-> [ip |-> Address(h), status |-> "ok",
                               device_type |-> LastAttempt(h).dt]]
             /\ errors'[h] = errors[h]
             /\ attempts'[h] = attempts[h]
             /\ artifacts' = artifacts]_vars

\* C31 witness: a host is ok over Telnet with its session still open: its
\* disconnect raised, no write had failed
C31_Witness ==
    \E h \in live :
        /\ IsOk(h)
        /\ writeFails[h] = 0
        /\ sessions[h] = 1
        /\ future[h].value.device_type = "generic_telnet"

\* the keyword groups in the order the claim gives them
KeywordGroups ==
    <<[vendor |-> "mikrotik", keys |-> {"routeros", "mikrotik"}],
      [vendor |-> "eltex_mes", keys |-> {"eltex", " mes"}],
      [vendor |-> "huawei_vrp", keys |-> {"huawei", " vrp"}],
      [vendor |-> "dlink", keys |-> {"d-link", " dgs", " des-"}],
      [vendor |-> "qtech", keys |-> {"qtech", " qsw"}],
      [vendor |-> "cisco_ios", keys |-> {"cisco ios", "ios-xe", "cisco"}]>>

\* the groups of which the text holds a keyword, in either case
MatchingGroups(text) ==
    {g \in 1..Len(KeywordGroups) :
        \E key \in KeywordGroups[g].keys : Contains(Lower(text), key)}

\* the vendor of the earliest matching group, None when no group matches
EarliestVendor(text) ==
    IF MatchingGroups(text) = {} THEN None
    ELSE KeywordGroups[Least(MatchingGroups(text))].vendor

\* C32: a host classified over its stored output, with no override and no
\* range table, gets as its one profile the vendor of the earliest keyword
\* group of which the text holds a keyword, whatever the case and whatever
\* later groups match too; it gets the default list when no group matches.
C32_EarliestKeywordGroupWins ==
    \A h \in live :
        BeforeWrite(h) =>
            LET text == artifacts[out_path(Address(h))]
            IN  /\ vendor_hint_from_raw(Address(h)) = EarliestVendor(text)
                /\ order[h] = IF EarliestVendor(text) /= None
                              THEN <<EarliestVendor(text)>>
                              ELSE DEVICE_TRY_ORDER

\* C32 witness: over the stored text "cisco then MikroTik", which names cisco
\* before mikrotik, the host is tried as mikrotik
C32_Witness ==
    \E h \in live :
        /\ BeforeWrite(h)
        /\ artifacts[out_path(Address(h))] = "cisco then MikroTik"
        /\ Cardinality(MatchingGroups("cisco then MikroTik")) = 2
        /\ order[h] = <<"mikrotik">>
        /\ attempts[h] /= <<>>

\* C33 (as claimed): when every call returns or raises in its time, main
\* eventually returns with every live host ended ok or fail, none after more
\* than two attempts per candidate profile.
C33_EveryTaskEndsAndMainReturns ==
    <>(/\ mainPc = "returned"
       /\ \A h \in live :
            /\ IsOk(h) \/ IsFail(h)
            /\ Len(attempts[h]) <= 2 * Len(order[h]))

\* C34 (as claimed): no address has more than one session open; no session of
\* a host is open while its next candidate is examined or connected to, nor
\* when the host has ended with a fail outcome.
C34_SessionsClosedBetweenAttempts ==
    \A h \in Targets :
        /\ sessions[h] <= 1
        /\ pc[h] \in {"loop", "connect"} => sessions[h] = 0
        /\ IsFail(h) => sessions[h] = 0

\* C35 (as claimed): a heartbeat line is printed only in a pass of the loop in
\* which no future was collected, and only while a future is pending.
C35_HeartbeatOnlyAfterIdleWait ==
    [][heartbeats' > heartbeats => ~completed_any /\ pending /= {}]_vars

\* how many deadline-exceeded diagnostics the error list of h holds
DeadlineDiags(h) == Cardinality({i \in 1..Len(errors[h]) : errors[h][i] = DeadlineDiag})

\* C36 (as claimed): the error list of a host never holds more than one
\* deadline-exceeded diagnostic.
C36_OneDeadlineDiagnostic == \A h \in Targets : DeadlineDiags(h) <= 1

\* the target is an address that EXCLUDE_IPS excludes
IsExcluded(t) == IsAddress(t) /\ str_ip_address(t) \in ExcludedAddresses

\* a target list with every address in the spelling of str(ip)
Respelled(list) ==
    [i \in 1..Len(list) |-> IF IsAddress(list[i]) THEN str_ip_address(list[i]) ELSE list[i]]

\* the targets of the command line that EXCLUDE_IPS does not exclude, in the
\* order of the expansion
Survivors ==
    SelectSeq(iter_targets(env.args_targets, env.args_cidr).yielded,
              LAMBDA t : ~IsExcluded(t))

\* C37 (as claimed): once the exclusion pass is over the target list holds
\* every target of the expansion, address or host name, that is neither an
\* excluded address nor inside an excluded range, in the order of the
\* expansion (the spelling of an address apart).
C37_ExclusionRemovesNothingElse ==
    mainPc \notin {"expand", "exclude", "crashed"} =>
        Respelled(targets) = Respelled(Survivors)

\* the profile the sources of classification give for h before its task
\* classifies it: the override, else the stored output, else the range hint,
\* else the detection on an open port 22; None when none of them gives one
ResolvedProfile(h) ==
    LET pref == Strip(env.PREFER_VENDOR)
        raw == vendor_hint_from_raw(Address(h))
        table == vendor_hint_for_ip(Address(h))
    IN  IF pref /= "" THEN pref
        ELSE IF raw /= None THEN raw
        ELSE IF table /= None /\ table /= "" THEN table
        ELSE IF device.ssh /\ Strip(env.DETECT) /= "0" /\ device.detect \notin {None, "raise"}
        THEN Get(NETMIKO_TO_PROFILE, device.detect, device.detect)
        ELSE None

\* the session attempts of h were all made with the one profile of its order
OnlyWithResolved(h) ==
    /\ Len(attempts[h]) <= 2
    /\ \A i \in 1..Len(attempts[h]) :
          attempts[h][i].dt \in {order[h][1], order[h][1] \o "_telnet"}
    /\ \A i, j \in 1..Len(attempts[h]) : i < j => attempts[h][i].dt /= attempts[h][j].dt

ErrorLines(text) ==
    Len(SelectSeq(SplitLines(text), LAMBDA line : StartsWith(line, "[ERROR executing command: ")))

\* C39: the results of the commands decide nothing about the outcome. The
\* file a session writes holds one error line for each of its commands that
\* raised and the write adds no diagnostic; once the file is written the task
\* ends ok, and nothing else can follow.
C39_OkWhateverTheCommandsDid ==
    [][\A h \in Targets :
          /\ pc[h] = "commands" /\ pc'[h] = "disconnect" =>
                /\ ErrorLines(artifacts'[out_path(Address(h))])
                      = CountFailed(chunks[h], CommandsOf(Dt(h)))
                /\ errors'[h] = errors[h]
          /\ pc[h] = "disconnect" /\ pc'[h] /= "disconnect" =>
                /\ future'[h].kind = "result"
                /\ future'[h].value.status = "ok"]_vars

\* C39 witness: a host whose only command raised ended ok, and its file is
\* the error block of that command
C39_Witness ==
    \E h \in live :
        /\ IsOk(h)
        /\ CommandsOf(LastAttempt(h).dt) = <<"show arp">>
        /\ artifacts[out_path(Address(h))] = ErrorChunk("show arp")
        /\ ErrorLines(artifacts[out_path(Address(h))]) = 1

\* the edges of the writer's graph that have a source and a destination
FullEdges == SelectSeq(norm.edges, LAMBDA e : ~Falsy(e.src) /\ ~Falsy(e.dst))

\* how many lines of the rendered text are the line of the edge
TimesEmitted(e) ==
    Len(SelectSeq(SplitLines(mmd[1]), LAMBDA line : line = build_edge_line(e)))

\* C40 (as claimed): the text render returns holds the line of every edge
\* that has a source and a destination exactly once, with subgraphs as
\* without.
C40_EveryEdgeOnce ==
    mmd /= Nothing => \A i \in 1..Len(FullEdges) : TimesEmitted(FullEdges[i]) = 1

\* without subgraphs every edge that has both ends is printed once
RenderPlainEmitsOnce ==
    mmd /= Nothing /\ ~use_subgraphs =>
        \A i \in 1..Len(FullEdges) : TimesEmitted(FullEdges[i]) = 1

====
